---- MODULE Spec2Model ----
(***************************************************************************)
(* Model of the per-room game state machine of ultimate-rps-server         *)
(* (src/app/game/game_state.py, class GameState), of the kick handler of   *)
(* the WebSocket gateway that mutates its kicked set, and of the persisted *)
(* live-player counter of the room's row, which every server process that  *)
(* holds sockets for the room updates.                                     *)
(*                                                                         *)
(* Every field of GameState is a function of the server process that owns  *)
(* the in-memory object; max_players, number_of_actions and                *)
(* number_of_players belong to the persisted Room row and are shared.      *)
(*                                                                         *)
(* Spec drives the operations of one room object, SpecCluster two server   *)
(* processes sharing the row, SpecGateway the receiver tasks of the        *)
(* WebSocket gateway (src/app/routers/websocket_handler.py) with their     *)
(* suspension points, SpecBus the receiver and sender tasks of the         *)
(* connections together with the room's channel of the shared bus,         *)
(* SpecUsers the user management API on the user table and SpecHistory     *)
(* the chat rows and their replay on connect. SpecRow interleaves the      *)
(* database statements of two processes on the room's row, SpecAuth issues *)
(* and resolves access tokens, SpecDuplicate follows two connections of    *)
(* one user, SpecFrames the receive loop frame by frame with the chat      *)
(* rows, SpecRegistry the room registry of a process (RoomManager.rooms)   *)
(* and SpecLobby the in-memory lobby (GameManager).                        *)
(***************************************************************************)
EXTENDS Integers, Sequences, FiniteSets, TLC

\* ---------------------------------------------------------------- bounds
MaxSubmitted == 2
MaxRound == 2
\* the largest user id handed out
MaxUserId == 3
\* the most chat rows written, and the most of them written for another room
MaxMessages == 52
MaxOtherRows == 1
\* the most events published on the room's channel
MaxEvents == 5
\* the most updates of the persisted counter that are lost
MaxLost == 1
\* the most access tokens issued
MaxTokens == 1
\* the most chat frames received
MaxChat == 2
\* the most rooms and players created in the in-memory lobby
MaxLobbyRooms == 2
MaxLobbyPlayers == 3

\* .limit(50) of the history query
HISTORY_LIMIT == 50

Users == {"a", "b", "c"}
Procs == {"p1", "p2"}
\* the process whose room object the single-process specification drives
P1 == "p1"
\* a second server process sharing the persisted row
P2 == "p2"
None == "None"
\* the room configurations (max_players, number_of_actions) that are created
RoomSizes == {3}
ActionCounts == {1}
\* action values a client sends: below, inside and above [0, number_of_actions)
ActionInputs == {0 - 1, 0, 1}
\* the usernames named as target of a kick_player message
KickTargets == {"c"}
\* the usernames whose client disconnects
Leavers == {"b", "c"}
\* the WebSocket connections clients open, two of them with the same token,
\* the size of the room they connect to and the targets of their kicks
Conns == {"a1", "a2", "b1"}
GatewayRoomSizes == {2}
GatewayKickTargets == {"b"}
\* the connections whose sender tasks are followed, the usernames a
\* kick_player message names as acting user and as target
BusConns == {"a1", "b1"}
BusHosts == {"a", "c"}
BusKickTargets == {"b", "c"}
\* the action values of the play messages followed on the bus
BusActionInputs == {0, 1}
\* two connections opened with the same token, with their sender tasks
DupConns == {"a1", "a2"}
\* the connection whose authentication is followed, and the usernames that
\* accounts take and tokens name while it is
AuthConns == {"a1"}
AuthNames == {"a", "b"}
\* the rooms chat rows are written for: the replayed one and another one
Rooms == {1, 2}

VARIABLES
    max_players,        \* Room.max_players, copied into GameState.max_players
    number_of_actions,  \* Room.number_of_actions
    number_of_players,  \* Room.number_of_players, the persisted counter
    connections,        \* GameState._connections (its key set), per process
    player_info,        \* GameState._player_info: username -> PlayerInfo
    kicked_players,     \* GameState._kicked_players
    game_active,
    game_over,
    winner,
    round_number,       \* current_round.round_number
    actions,            \* current_round.actions, in insertion order
    ready_players,      \* current_round.ready_players
    eliminated_players, \* GameState.eliminated_players
    last,               \* the last call made and what it returned or raised
    handler,            \* where the receiver task of each connection stands
    socket,             \* the state of each connection's WebSocket
    owner,              \* GameState._connections: username -> its WebSocket
    kick_target,        \* the target a handler is closing the socket of
    kick_host,          \* the acting username of that kick message
    channel,            \* the events published on the room's bus channel
    sender,             \* where the sender task of each connection stands
    subscriber,         \* the queue of each connection's bus subscription
    users,              \* the user table: id -> row
    messages,           \* the message table, in insertion order
    room_db,            \* the Room row a process has read and not yet committed
    tokens,             \* the access tokens issued by login_for_access_token
    rooms,              \* RoomManager.rooms of one process: path id -> GameState
    lobby_rooms,        \* GameManager.rooms of the in-memory lobby: id -> Room
    lobby_players       \* GameManager.players of the lobby: id -> Player

roomVars == <<max_players, number_of_actions>>
rosterVars == <<connections, player_info>>
roundVars == <<round_number, actions, ready_players>>
gameVars == <<game_active, game_over, winner, eliminated_players>>
gameStateVars == <<max_players, number_of_actions, number_of_players,
                   connections, player_info, kicked_players, game_active,
                   game_over, winner, round_number, actions, ready_players,
                   eliminated_players>>
gatewayVars == <<handler, socket, owner, kick_target, kick_host>>
busVars == <<channel, sender, subscriber>>
\* the state outside the tables that only some specifications drive
sideVars == <<room_db, tokens, rooms, lobby_rooms, lobby_players>>
storeVars == <<users, messages, sideVars>>
vars == <<max_players, number_of_actions, number_of_players, connections,
          player_info, kicked_players, game_active, game_over, winner,
          round_number, actions, ready_players, eliminated_players, last,
          handler, socket, owner, kick_target, kick_host, channel, sender, subscriber,
          users, messages, room_db, tokens, rooms, lobby_rooms, lobby_players>>

\* ------------------------------------------------------------- helpers
Upd(f, p, v) == [f EXCEPT ![p] = v]

\* a call of operation op with integer argument arg and its outcome; payload
\* is the dict the call returned, None when it returned none
Call(op, arg, result) ==
    [op |-> op, arg |-> arg, result |-> result, payload |-> None]

RECURSIVE SeqFilterOut(_, _)
\* the sequence s without the entries of username u (del d[u] / d.pop(u))
SeqFilterOut(s, u) ==
    IF s = <<>> THEN <<>>
    ELSE IF Head(s).username = u THEN SeqFilterOut(Tail(s), u)
         ELSE <<Head(s)>> \o SeqFilterOut(Tail(s), u)

Names(s) == {s[i].username : i \in 1..Len(s)}

IndexOf(s, u) == CHOOSE i \in 1..Len(s) : s[i].username = u

\* PlayerInfo(user_id, username, connected_at): a fresh entry
PlayerInfo(u) == [actions_submitted |-> 0, is_eliminated |-> FALSE]

\* d[u] = v on a dict read only by key
MapSet(d, u, v) == [k \in DOMAIN d \cup {u} |-> IF k = u THEN v ELSE d[k]]

\* del d[u]
MapDel(d, u) == [k \in DOMAIN d \ {u} |-> d[k]]

\* d[u] = v that always adds a new entry
DictSet_append(s, u, rec) == Append(s, rec)

\* d[u] = v on an insertion-ordered dict: an existing key keeps its place
DictSet(s, u, rec) ==
    IF u \in Names(s) THEN [s EXCEPT ![IndexOf(s, u)] = rec]
    ELSE Append(s, rec)

\* ------------------------------------------------------------ properties
is_full(p) == Cardinality(connections[p]) >= max_players

\* [username for username, info in items if not info.is_eliminated]
ActiveOf(info) == {u \in DOMAIN info : ~info[u].is_eliminated}

active_players(p) == ActiveOf(player_info[p])

\* all_players_ready counting every connection, eliminated or not
all_players_ready_all_connections(p) ==
    Cardinality(ready_players[p]) = Cardinality(connections[p])

all_players_ready(p) ==
    Cardinality(ready_players[p]) = Cardinality(active_players(p))

\* the precondition of process_round, with the comparison slackened
round_may_start_at_most(p) ==
    Cardinality(ready_players[p]) <= Cardinality(active_players(p))

\* process_round raises unless this holds
round_may_start(p) == all_players_ready(p)

\* ------------------------------------------------------------------ Init
\* the state after the room object of a room of one of the sizes was created
\* no Room row is loaded in the session of a process
NoRow == [op |-> "none", username |-> None, number_of_players |-> 0]

InitRoom(sizes) ==
    /\ max_players \in sizes
    /\ number_of_actions \in ActionCounts
    /\ number_of_players = 0
    /\ connections = [p \in Procs |-> {}]
    /\ player_info = [p \in Procs |-> [u \in {} |-> PlayerInfo(u)]]
    /\ kicked_players = [p \in Procs |-> {}]
    /\ game_active = [p \in Procs |-> FALSE]
    /\ game_over = [p \in Procs |-> FALSE]
    /\ winner = [p \in Procs |-> None]
    /\ round_number = [p \in Procs |-> 1]
    /\ actions = [p \in Procs |-> <<>>]
    /\ ready_players = [p \in Procs |-> {}]
    /\ eliminated_players = [p \in Procs |-> {}]
    /\ last = Call("init", 0, "ok")
    /\ handler = [c \in Conns |-> "none"]
    /\ socket = [c \in Conns |-> "none"]
    /\ owner = [u \in Users |-> None]
    /\ kick_target = [c \in Conns |-> None]
    /\ kick_host = [c \in Conns |-> None]
    /\ channel = <<>>
    /\ sender = [c \in Conns |-> "none"]
    /\ subscriber = [c \in Conns |-> <<>>]
    /\ users = [i \in {} |-> None]
    /\ messages = <<>>
    /\ room_db = [p \in Procs |-> NoRow]
    /\ tokens = {}
    /\ rooms = <<>>
    /\ lobby_rooms = <<>>
    /\ lobby_players = <<>>

Init == InitRoom(RoomSizes)

\* ------------------------------------------------------------ add_player
\* add_player without its kicked-set check
add_player_check_no_kick(p, u) ==
    IF is_full(p) THEN "RoomFull"
    ELSE IF u \in connections[p] THEN "AlreadyPresent"
    ELSE "ok"

\* the exception add_player raises for username u, or "ok"
add_player_check(p, u) ==
    IF is_full(p) THEN "RoomFull"
    ELSE IF u \in connections[p] THEN "AlreadyPresent"
    ELSE IF u \in kicked_players[p] THEN "PreviouslyKicked"
    ELSE "ok"

AddPlayer(p, u) ==
    /\ last' = Call("add_player", 0, add_player_check(p, u))
    /\ IF add_player_check(p, u) = "ok"
       THEN /\ number_of_players' = number_of_players + 1
            /\ connections' = Upd(connections, p, connections[p] \cup {u})
            /\ player_info' = Upd(player_info, p,
                                  MapSet(player_info[p], u, PlayerInfo(u)))
       ELSE UNCHANGED <<number_of_players, connections, player_info>>
    /\ UNCHANGED <<roomVars, kicked_players, roundVars, gameVars>>

\* --------------------------------------------------------- remove_player
\* remove_player without the discard of the ready entry
remove_player_body_keeps_ready(p, u) ==
    IF u \notin connections[p]
    THEN UNCHANGED <<number_of_players, rosterVars, roundVars>>
    ELSE /\ number_of_players' = number_of_players - 1
         /\ connections' = Upd(connections, p, connections[p] \ {u})
         /\ player_info' = Upd(player_info, p, MapDel(player_info[p], u))
         /\ actions' = Upd(actions, p, SeqFilterOut(actions[p], u))
         /\ UNCHANGED <<ready_players, round_number>>

\* the assignments of remove_player
remove_player_body(p, u) ==
    IF u \notin connections[p]
    THEN UNCHANGED <<number_of_players, rosterVars, roundVars>>
    ELSE /\ number_of_players' = number_of_players - 1
         /\ connections' = Upd(connections, p, connections[p] \ {u})
         /\ player_info' = Upd(player_info, p, MapDel(player_info[p], u))
         /\ actions' = Upd(actions, p, SeqFilterOut(actions[p], u))
         /\ ready_players' = Upd(ready_players, p, ready_players[p] \ {u})
         /\ UNCHANGED round_number

RemovePlayer(p, u) ==
    /\ last' = Call("remove_player", 0, IF u \notin connections[p] THEN "noop" ELSE "ok")
    /\ remove_player_body(p, u)
    /\ UNCHANGED <<roomVars, kicked_players, gameVars>>

\* --------------------------------------------------------- submit_action
\* submit_action with an off-by-one upper range check
submit_action_accepts_off_by_one(p, u, a) ==
    /\ u \in DOMAIN player_info[p]
    /\ ~player_info[p][u].is_eliminated
    /\ ~game_over[p]
    /\ ~(a < 0 \/ a > number_of_actions)

\* the conditions under which submit_action does not return False early
submit_action_accepts(p, u, a) ==
    /\ u \in DOMAIN player_info[p]
    /\ ~player_info[p][u].is_eliminated
    /\ ~game_over[p]
    /\ ~(a < 0 \/ a >= number_of_actions)

SubmitAction(p, u, a) ==
    /\ IF submit_action_accepts(p, u, a)
       THEN     /\ player_info[p][u].actions_submitted < MaxSubmitted
                /\ last' = Call("submit_action", a, "true")
                /\ actions' = Upd(actions, p,
                       DictSet(actions[p], u, [username |-> u, action |-> a]))
                /\ ready_players' = Upd(ready_players, p, ready_players[p] \cup {u})
                /\ player_info' = Upd(player_info, p,
                       [player_info[p] EXCEPT ![u].actions_submitted = @ + 1])
       ELSE /\ last' = Call("submit_action", a, "false")
            /\ UNCHANGED <<actions, ready_players, player_info>>
    /\ UNCHANGED <<roomVars, number_of_players, connections, kicked_players,
                   round_number, gameVars>>

\* --------------------------------------------------------- process_round
\* players[idx].name for the seat indices the engine returned (0-based)
eliminated_usernames(p, elim) == {actions[p][idx + 1].username : idx \in elim}

\* _player_info after the elimination loop
mark_eliminated(info, names) ==
    [u \in DOMAIN info |->
        IF u \in names THEN [info[u] EXCEPT !.is_eliminated = TRUE] ELSE info[u]]

\* the game ends only when nobody remains
game_ends_when_empty(remaining) == Cardinality(remaining) < 1

\* len(remaining) <= 1
game_ends(remaining) == Cardinality(remaining) <= 1

\* the dict process_round returns, built after the round state was reset or
\* the game ended; eliminated and remaining are kept as sets of usernames
round_result(p, names, remaining) ==
    [round |-> round_number'[p] - 1,
     actions |-> actions'[p],
     eliminated |-> names,
     remaining |-> remaining,
     game_over |-> game_over'[p],
     winner |-> winner'[p]]

\* Game(players, number_of_actions).eliminate(actions) is the external engine:
\* elim is any set of seat indices of the players list; on an empty players
\* list the engine returns no index or raises, before any assignment
ProcessRound(p, elim) ==
    IF ~round_may_start(p)
    THEN /\ elim = {}
         /\ last' = Call("process_round", 0, "PreconditionFailed")
         /\ UNCHANGED <<roomVars, number_of_players, rosterVars, kicked_players,
                        roundVars, gameVars>>
    ELSE
      \/ /\ actions[p] = <<>>
         /\ elim = {}
         /\ last' = Call("process_round", 0, "EngineError")
         /\ UNCHANGED <<roomVars, number_of_players, rosterVars, kicked_players,
                        roundVars, gameVars>>
      \/ LET names == eliminated_usernames(p, elim)
             info == mark_eliminated(player_info[p], names)
             remaining == ActiveOf(info)
         IN  /\ elim \subseteq 0..(Len(actions[p]) - 1)
             /\ eliminated_players' =
                    Upd(eliminated_players, p, eliminated_players[p] \cup names)
             /\ player_info' = Upd(player_info, p, info)
             /\ IF game_ends(remaining)
                THEN /\ game_over' = Upd(game_over, p, TRUE)
                     /\ game_active' = Upd(game_active, p, FALSE)
                     /\ winner' = Upd(winner, p,
                            IF remaining # {} THEN CHOOSE u \in remaining : TRUE ELSE None)
                     /\ UNCHANGED roundVars
                ELSE /\ round_number[p] < MaxRound
                     /\ actions' = Upd(actions, p, <<>>)
                     /\ ready_players' = Upd(ready_players, p, {})
                     /\ round_number' = Upd(round_number, p, round_number[p] + 1)
                     /\ UNCHANGED <<game_over, game_active, winner>>
             /\ last' = [Call("process_round", 0, "ok")
                            EXCEPT !.payload = round_result(p, names, remaining)]
             /\ UNCHANGED <<roomVars, number_of_players, connections, kicked_players>>

\* ------------------------------------------------- reset_game, start_game
\* reset_game without the loop that clears the elimination flags
reset_to_keeps_flags(p, active) ==
    /\ game_active' = Upd(game_active, p, active)
    /\ game_over' = Upd(game_over, p, FALSE)
    /\ winner' = Upd(winner, p, None)
    /\ round_number' = Upd(round_number, p, 1)
    /\ actions' = Upd(actions, p, <<>>)
    /\ ready_players' = Upd(ready_players, p, {})
    /\ eliminated_players' = Upd(eliminated_players, p, {})
    /\ UNCHANGED player_info

\* reset_game without the assignments of game_over and winner
reset_to_keeps_over(p, active) ==
    /\ game_active' = Upd(game_active, p, active)
    /\ round_number' = Upd(round_number, p, 1)
    /\ actions' = Upd(actions, p, <<>>)
    /\ ready_players' = Upd(ready_players, p, {})
    /\ eliminated_players' = Upd(eliminated_players, p, {})
    /\ player_info' = Upd(player_info, p,
           [u \in DOMAIN player_info[p] |->
               [player_info[p][u] EXCEPT !.is_eliminated = FALSE]])
    /\ UNCHANGED <<game_over, winner>>

\* the assignments of reset_game, with game_active set to active
reset_to(p, active) ==
    /\ game_active' = Upd(game_active, p, active)
    /\ game_over' = Upd(game_over, p, FALSE)
    /\ winner' = Upd(winner, p, None)
    /\ round_number' = Upd(round_number, p, 1)
    /\ actions' = Upd(actions, p, <<>>)
    /\ ready_players' = Upd(ready_players, p, {})
    /\ eliminated_players' = Upd(eliminated_players, p, {})
    /\ player_info' = Upd(player_info, p,
           [u \in DOMAIN player_info[p] |->
               [player_info[p][u] EXCEPT !.is_eliminated = FALSE]])

\* reset_game returns nothing: the call record keeps whether the game it
\* reset was over
ResetGame(p) ==
    /\ last' = Call("reset_game", 0, IF game_over[p] THEN "was_over" ELSE "was_not_over")
    /\ reset_to(p, FALSE)
    /\ UNCHANGED <<roomVars, number_of_players, connections, kicked_players>>

\* start_game without the check of game_active
start_game_accepts_while_active(p) == ~(Cardinality(connections[p]) < 2)

\* the conditions under which start_game does not return False early
start_game_accepts(p) ==
    /\ ~(Cardinality(connections[p]) < 2)
    /\ ~game_active[p]

StartGame(p) ==
    /\ IF start_game_accepts(p)
       THEN /\ last' = Call("start_game", 0, "true")
            /\ reset_to(p, TRUE)
       ELSE /\ last' = Call("start_game", 0, "false")
            /\ UNCHANGED <<player_info, roundVars, gameVars>>
    /\ UNCHANGED <<roomVars, number_of_players, connections, kicked_players>>

\* ----------------------------------------------------- _handle_kick_player
\* the room-state effect of a kick_player message; the closed socket of the
\* target ends its receiver loop, whose cleanup is RemovePlayer(p, target)
\* a kick that closes the socket and forgets to bar the target
kicked_after_unmarked(p, target) == kicked_players[p]

\* _kicked_players after _kicked_players.add(target)
kicked_after(p, target) == kicked_players[p] \cup {target}

KickPlayer(p, host, target) ==
    /\ IF host \notin DOMAIN player_info[p]
       THEN /\ last' = Call("kick_player", 0, "Unauthorized")
            /\ UNCHANGED kicked_players
       ELSE IF target \notin connections[p]
       THEN /\ last' = Call("kick_player", 0, "Player not found")
            /\ UNCHANGED kicked_players
       ELSE /\ last' = Call("kick_player", 0, "ok")
            /\ kicked_players' = Upd(kicked_players, p, kicked_after(p, target))
    /\ UNCHANGED <<roomVars, number_of_players, rosterVars, roundVars, gameVars>>

\* ------------------------------------------------------------------ Next
\* process_round is called on behalf of a connected client, with whatever
\* seat indices the engine returns
ResolveRound(p) ==
    /\ connections[p] # {}
    /\ \E elim \in SUBSET (0..(Cardinality(Users) - 1)) : ProcessRound(p, elim)

\* the calls of the public operations of one room object, with the
\* gateway's tasks and the tables left out
add_player(u) == AddPlayer(P1, u) /\ UNCHANGED <<gatewayVars, busVars, storeVars>>

remove_player(u) == RemovePlayer(P1, u) /\ UNCHANGED <<gatewayVars, busVars, storeVars>>

submit_action(u, a) ==
    SubmitAction(P1, u, a) /\ UNCHANGED <<gatewayVars, busVars, storeVars>>

process_round == ResolveRound(P1) /\ UNCHANGED <<gatewayVars, busVars, storeVars>>

start_game == StartGame(P1) /\ UNCHANGED <<gatewayVars, busVars, storeVars>>

reset_game == ResetGame(P1) /\ UNCHANGED <<gatewayVars, busVars, storeVars>>

kick_player(h, t) == KickPlayer(P1, h, t) /\ UNCHANGED <<gatewayVars, busVars, storeVars>>

\* one server process
Next ==
    \/ \E u \in Users : add_player(u)
    \/ \E u \in Leavers : remove_player(u)
    \/ \E u \in Users, a \in ActionInputs : submit_action(u, a)
    \/ process_round
    \/ start_game
    \/ reset_game
    \/ \E h \in Users, t \in KickTargets : kick_player(h, t)

Spec == Init /\ [][Next]_vars

\* two server processes holding sockets of the same room, whose persisted
\* row they share: clients connect to and disconnect from either of them
client_connects(p, u) ==
    AddPlayer(p, u) /\ UNCHANGED <<gatewayVars, busVars, storeVars>>

client_disconnects(p, u) ==
    RemovePlayer(p, u) /\ UNCHANGED <<gatewayVars, busVars, storeVars>>

NextCluster ==
    \/ \E p \in Procs, u \in Users : client_connects(p, u)
    \/ \E p \in Procs, u \in Users : client_disconnects(p, u)

SpecCluster == Init /\ [][NextCluster]_vars

\* --------------------------------------------------------------- room row
\* add_player and remove_player change the counter of the persisted row by
\* session.get(Room, id), an assignment to the loaded object and
\* session.commit(): the row is read and written back by two statements of
\* the database, between which another server process can read and write
\* the same row. The call has no await, so the process that runs it does
\* nothing else in between.

\* the entries of the room's connection tables, over the two processes
Entries == Cardinality(connections[P1]) + Cardinality(connections[P2])

\* how far the persisted counter is from the connection tables
Lost == IF number_of_players >= Entries
        THEN number_of_players - Entries ELSE Entries - number_of_players

\* add_player up to session.get: the checks passed and the row is loaded
add_player_get(p, u) ==
    /\ room_db[p] = NoRow
    /\ Lost < MaxLost
    /\ add_player_check(p, u) = "ok"
    /\ room_db' = [room_db EXCEPT ![p] =
                      [op |-> "add_player", username |-> u,
                       number_of_players |-> number_of_players]]
    /\ last' = Call("session.get", 0, "ok")
    /\ UNCHANGED <<gameStateVars, gatewayVars, busVars, users, messages, tokens,
                   rooms, lobby_rooms, lobby_players>>

\* add_player from the increment of the loaded row to its end
add_player_commit(p) ==
    /\ room_db[p].op = "add_player"
    /\ number_of_players' = room_db[p].number_of_players + 1
    /\ connections' = Upd(connections, p, connections[p] \cup {room_db[p].username})
    /\ player_info' = Upd(player_info, p,
           MapSet(player_info[p], room_db[p].username, PlayerInfo(room_db[p].username)))
    /\ room_db' = [room_db EXCEPT ![p] = NoRow]
    /\ last' = Call("add_player", 0, "ok")
    /\ UNCHANGED <<roomVars, kicked_players, roundVars, gameVars, gatewayVars,
                   busVars, users, messages, tokens,
                   rooms, lobby_rooms, lobby_players>>

\* remove_player up to session.get: the username is connected
remove_player_get(p, u) ==
    /\ room_db[p] = NoRow
    /\ Lost < MaxLost
    /\ u \in connections[p]
    /\ room_db' = [room_db EXCEPT ![p] =
                      [op |-> "remove_player", username |-> u,
                       number_of_players |-> number_of_players]]
    /\ last' = Call("session.get", 0, "ok")
    /\ UNCHANGED <<gameStateVars, gatewayVars, busVars, users, messages, tokens,
                   rooms, lobby_rooms, lobby_players>>

\* remove_player from the decrement of the loaded row to its end
remove_player_commit(p) ==
    /\ room_db[p].op = "remove_player"
    /\ number_of_players' = room_db[p].number_of_players - 1
    /\ connections' = Upd(connections, p, connections[p] \ {room_db[p].username})
    /\ player_info' = Upd(player_info, p, MapDel(player_info[p], room_db[p].username))
    /\ actions' = Upd(actions, p, SeqFilterOut(actions[p], room_db[p].username))
    /\ ready_players' = Upd(ready_players, p, ready_players[p] \ {room_db[p].username})
    /\ room_db' = [room_db EXCEPT ![p] = NoRow]
    /\ last' = Call("remove_player", 0, "ok")
    /\ UNCHANGED <<roomVars, kicked_players, round_number, gameVars, gatewayVars,
                   busVars, users, messages, tokens,
                   rooms, lobby_rooms, lobby_players>>

\* two server processes whose database statements interleave
NextRow ==
    \/ \E p \in Procs, u \in Users : add_player_get(p, u)
    \/ \E p \in Procs : add_player_commit(p)
    \/ \E p \in Procs, u \in Users : remove_player_get(p, u)
    \/ \E p \in Procs : remove_player_commit(p)

SpecRow == Init /\ [][NextRow]_vars

\* ---------------------------------------------------------------- gateway
\* The receiver task of a connection (WebSocketHandler.handle_messages) runs
\* from one await that suspends it to the next; add_player, remove_player,
\* submit_action and process_round contain no await and run in one piece.
\* handler: "none" no task, "loop" waiting in websocket.iter_text(),
\* "announce" in handle_player_action at the publish of player_ready,
\* "kicking" in _handle_kick_player at the close of the target's socket,
\* "chatting" in _handle_chat_message at the publish of the message event.
\* socket: the server's view, "closed" once the server has closed it.

\* the username of the token a connection was opened with
UserOf(c) == IF c \in {"a1", "a2"} THEN "a" ELSE "b"

\* the finally block of handle_messages, which ends the task of c
leave(c) ==
    /\ remove_player_body(P1, UserOf(c))
    /\ owner' = IF UserOf(c) \in connections[P1]
                 THEN [owner EXCEPT ![UserOf(c)] = None] ELSE owner
    /\ handler' = [handler EXCEPT ![c] = "none"]
    /\ socket' = [socket EXCEPT ![c] = "none"]
    /\ kick_target' = [kick_target EXCEPT ![c] = None]
    /\ kick_host' = [kick_host EXCEPT ![c] = None]

\* a client connects: add_player, and on its exception the finally block
Connect(c) ==
    /\ handler[c] = "none"
    /\ IF add_player_check(P1, UserOf(c)) = "ok"
       THEN /\ AddPlayer(P1, UserOf(c))
            /\ owner' = [owner EXCEPT ![UserOf(c)] = c]
            /\ handler' = [handler EXCEPT ![c] = "loop"]
            /\ socket' = [socket EXCEPT ![c] = "open"]
            /\ UNCHANGED <<kick_target, kick_host>>
       ELSE /\ last' = Call("add_player", 0, add_player_check(P1, UserOf(c)))
            /\ leave(c)
            /\ UNCHANGED <<roomVars, kicked_players, gameVars>>
    /\ UNCHANGED storeVars

\* the client goes away, or the socket was closed by a kick: iter_text ends
Leave(c) ==
    /\ handler[c] = "loop"
    /\ last' = Call("remove_player", 0,
                     IF UserOf(c) \notin connections[P1] THEN "noop" ELSE "ok")
    /\ leave(c)
    /\ UNCHANGED <<roomVars, kicked_players, gameVars, storeVars>>

\* a message can be received
receiving(c) == handler[c] = "loop" /\ socket[c] = "open"

\* a play message: handle_player_action up to the publish of player_ready
Play(c, a) ==
    /\ receiving(c)
    /\ SubmitAction(P1, UserOf(c), a)
    /\ handler' = [handler EXCEPT ![c] =
                       IF submit_action_accepts(P1, UserOf(c), a)
                       THEN "announce" ELSE "loop"]
    /\ UNCHANGED <<socket, owner, kick_target, kick_host, storeVars>>

\* handle_player_action after the publish: the round is resolved when
\* everybody is ready, an exception of process_round is caught
Resolve(c) ==
    /\ handler[c] = "announce"
    /\ IF all_players_ready(P1)
       THEN \E elim \in SUBSET (0..(Cardinality(Users) - 1)) : ProcessRound(P1, elim)
       ELSE /\ last' = Call("handle_player_action", 0, "not all ready")
            /\ UNCHANGED gameStateVars
    /\ handler' = [handler EXCEPT ![c] = "loop"]
    /\ UNCHANGED <<socket, owner, kick_target, kick_host, storeVars>>

\* a start_game message
Start(c) ==
    /\ receiving(c)
    /\ StartGame(P1)
    /\ UNCHANGED <<gatewayVars, storeVars>>

\* a reset_game message that resets the game whether it is over or not
Reset_always(c) ==
    /\ receiving(c)
    /\ last' = Call("reset_game", 0, "reset")
    /\ reset_to(P1, FALSE)
    /\ UNCHANGED <<roomVars, number_of_players, connections, kicked_players,
                   gatewayVars>>
    /\ UNCHANGED storeVars

\* a reset_game message: ignored unless the game is over. The game_reset
\* event also carries room.game_number and room.round_number, counters of a
\* GameState later than the one of game_state.py; they are read as plain
\* attributes, as the bots of the room are
Reset(c) ==
    /\ receiving(c)
    /\ IF ~game_over[P1]
       THEN /\ last' = Call("reset_game", 0, "ignored")
            /\ UNCHANGED <<gameStateVars, gatewayVars>>
       ELSE /\ last' = Call("reset_game", 0, "reset")
            /\ reset_to(P1, FALSE)
            /\ UNCHANGED <<roomVars, number_of_players, connections,
                           kicked_players, gatewayVars>>
    /\ UNCHANGED storeVars

\* a kick_player message that looks for the target before the acting username
KickClose_target_first(c, host, target) ==
    /\ receiving(c)
    /\ IF target \notin connections[P1]
       THEN /\ last' = Call("kick_player", 0, "Player not found")
            /\ UNCHANGED <<gameStateVars, gatewayVars>>
       ELSE IF host \notin DOMAIN player_info[P1]
       THEN /\ last' = Call("kick_player", 0, "Unauthorized")
            /\ UNCHANGED <<gameStateVars, gatewayVars>>
       ELSE \/ /\ last' = Call("kick_player", 0, "closing")
               /\ socket' = [socket EXCEPT ![owner[target]] = "closed"]
               /\ handler' = [handler EXCEPT ![c] = "kicking"]
               /\ kick_target' = [kick_target EXCEPT ![c] = target]
               /\ kick_host' = [kick_host EXCEPT ![c] = host]
               /\ UNCHANGED <<gameStateVars, owner>>
            \/ /\ socket[owner[target]] = "closed"
               /\ last' = Call("kick_player", 0, "RuntimeError")
               /\ leave(c)
               /\ UNCHANGED <<roomVars, kicked_players, gameVars>>
    /\ UNCHANGED storeVars

\* a kick_player message up to the close of the target's socket; closing a
\* socket that is already closed may raise in the WebSocket library, which
\* ends the task of c through the finally block
KickClose(c, host, target) ==
    /\ receiving(c)
    /\ IF host \notin DOMAIN player_info[P1]
       THEN /\ last' = Call("kick_player", 0, "Unauthorized")
            /\ UNCHANGED <<gameStateVars, gatewayVars>>
       ELSE IF target \notin connections[P1]
       THEN /\ last' = Call("kick_player", 0, "Player not found")
            /\ UNCHANGED <<gameStateVars, gatewayVars>>
       ELSE \/ /\ last' = Call("kick_player", 0, "closing")
               /\ socket' = [socket EXCEPT ![owner[target]] = "closed"]
               /\ handler' = [handler EXCEPT ![c] = "kicking"]
               /\ kick_target' = [kick_target EXCEPT ![c] = target]
               /\ kick_host' = [kick_host EXCEPT ![c] = host]
               /\ UNCHANGED <<gameStateVars, owner>>
            \/ /\ socket[owner[target]] = "closed"
               /\ last' = Call("kick_player", 0, "RuntimeError")
               /\ leave(c)
               /\ UNCHANGED <<roomVars, kicked_players, gameVars>>
    /\ UNCHANGED storeVars

\* _handle_kick_player after the close: the target is barred
KickMark(c) ==
    /\ handler[c] = "kicking"
    /\ last' = Call("kick_player", 0, "ok")
    /\ kicked_players' = Upd(kicked_players, P1, kicked_after(P1, kick_target[c]))
    /\ handler' = [handler EXCEPT ![c] = "loop"]
    /\ kick_target' = [kick_target EXCEPT ![c] = None]
    /\ kick_host' = [kick_host EXCEPT ![c] = None]
    /\ UNCHANGED <<roomVars, number_of_players, rosterVars, roundVars, gameVars,
                   socket, owner, storeVars>>

\* the receiver tasks of the connections of one room on one server process
NextGateway ==
    \/ \E c \in Conns : Connect(c) /\ UNCHANGED busVars
    \/ \E c \in Conns : Leave(c) /\ UNCHANGED busVars
    \/ \E c \in Conns, a \in ActionInputs : Play(c, a) /\ UNCHANGED busVars
    \/ \E c \in Conns : Resolve(c) /\ UNCHANGED busVars
    \/ \E c \in Conns : Start(c) /\ UNCHANGED busVars
    \/ \E c \in Conns : Reset(c) /\ UNCHANGED busVars
    \/ \E c \in Conns, t \in GatewayKickTargets :
          KickClose(c, UserOf(c), t) /\ UNCHANGED busVars
    \/ \E c \in Conns : KickMark(c) /\ UNCHANGED busVars

InitGateway == InitRoom(GatewayRoomSizes)

SpecGateway == InitGateway /\ [][NextGateway]_vars

\* -------------------------------------------------------------------- bus
\* The room's channel of the shared bus (broadcast_to_room) and the sender
\* task of each connection (broadcast_to_client), which the endpoint runs in
\* one task group with the receiver task. An event is on the channel once its
\* publish was issued, in the order of the issues; the publishing task is
\* suspended meanwhile. sender: "none" no connection, "subscribing" accepted
\* and waiting for the subscription, "subscribed" iterating over it.

\* an event with the fields of every event type
Event(type, username) ==
    [type |-> type, username |-> username, host |-> None, players |-> {},
     kicked_players |-> {}, ready_count |-> 0, total_active |-> 0,
     round |-> 0, game_over |-> FALSE, winner |-> None]

\* {"type": "player_joined", "username", "players": room.active_players}
player_joined(u, info) ==
    [Event("player_joined", u) EXCEPT !.players = ActiveOf(info)]

\* {"type": "player_left", "username", "players": room.active_players}
player_left(u, info) ==
    [Event("player_left", u) EXCEPT !.players = ActiveOf(info)]

\* a player_ready event that leaves the ready count out
player_ready_without_count(u, ready, info) ==
    [Event("player_ready", u) EXCEPT !.total_active = Cardinality(ActiveOf(info))]

\* {"type": "player_ready", "username", "ready_count", "total_active"}
player_ready(u, ready, info) ==
    [Event("player_ready", u) EXCEPT !.ready_count = Cardinality(ready),
                                     !.total_active = Cardinality(ActiveOf(info))]

\* {"type": "round_complete", **results}
round_complete(results) ==
    [Event("round_complete", None) EXCEPT !.round = results.round,
                                          !.players = results.remaining,
                                          !.game_over = results.game_over,
                                          !.winner = results.winner]

\* {"type": "error", "message": "Failed to process round"}
round_failed == Event("error", None)

\* {"type": "game_reset", "players": ..., "kicked_players": ...}
game_reset(info, kicked) ==
    [Event("game_reset", None) EXCEPT !.players = ActiveOf(info),
                                      !.kicked_players = kicked]

\* {"type": "kick_player", "host", "kick_player", "players", "kicked_players"}
kick_player_event(host, target, info, kicked) ==
    [Event("kick_player", target) EXCEPT !.host = host,
                                         !.players = ActiveOf(info),
                                         !.kicked_players = kicked]

\* the queues after the bus handed event e to every subscription in place
deliver(queues, senders, e) ==
    [c \in Conns |-> IF senders[c] = "subscribed"
                     THEN Append(queues[c], e) ELSE queues[c]]

\* await self.broadcast.publish(channel, message) by a task that goes on
publish(e) ==
    /\ channel' = Append(channel, e)
    /\ subscriber' = deliver(subscriber, sender, e)
    /\ UNCHANGED sender

\* a task group that leaves the sender task running
unsubscribed_never(c) == UNCHANGED sender

\* the sender task of c is cancelled: its subscription ends
unsubscribed(c) == sender' = [sender EXCEPT ![c] = "none"]

\* the receiver task of c publishes e in its finally block and returns:
\* task_group.cancel_scope.cancel() ends the sender task
publish_and_cancel(c, e) ==
    /\ unsubscribed(c)
    /\ channel' = Append(channel, e)
    /\ subscriber' = deliver([subscriber EXCEPT ![c] = <<>>], sender', e)

\* the publish of a finally block that runs in a cancelled scope: the await
\* raises the cancellation again, before or after the event went out
publish_or_not(c, e) ==
    \/ publish_and_cancel(c, e)
    \/ /\ unsubscribed(c)
       /\ subscriber' = [subscriber EXCEPT ![c] = <<>>]
       /\ UNCHANGED channel

\* websocket.accept(), the history replay and the start of the task group:
\* the receiver is scheduled, the endpoint's own task goes on to subscribe
create_task_group(c) ==
    /\ handler[c] = "none"
    /\ sender[c] = "none"
    /\ sender' = [sender EXCEPT ![c] = "subscribing"]
    /\ last' = Call("create_task_group", 0, "ok")
    /\ UNCHANGED <<gameStateVars, gatewayVars, channel, subscriber, storeVars>>

\* async with manager.broadcast.subscribe(channel): the subscription is in place
subscribe(c) ==
    /\ sender[c] = "subscribing"
    /\ sender' = [sender EXCEPT ![c] = "subscribed"]
    /\ last' = Call("subscribe", 0, "ok")
    /\ UNCHANGED <<gameStateVars, gatewayVars, channel, subscriber, storeVars>>

\* one iteration of the sender loop; the frame sent is kept as payload. The
\* receiver has not seen a disconnect, so client_state is CONNECTED and
\* send_text is called; on a socket the server has closed it raises, the
\* task group cancels the receiver at the await it is suspended in, and the
\* receiver's finally block runs
broadcast_to_client(c) ==
    /\ sender[c] = "subscribed"
    /\ subscriber[c] # <<>>
    /\ IF socket[c] # "closed"
       THEN /\ last' = [Call("broadcast_to_client", 0, "sent")
                           EXCEPT !.payload = Head(subscriber[c])]
            /\ subscriber' = [subscriber EXCEPT ![c] = Tail(@)]
            /\ UNCHANGED <<gameStateVars, gatewayVars, channel, sender>>
       ELSE /\ last' = Call("broadcast_to_client", 0, "RuntimeError")
            /\ leave(c)
            /\ publish_or_not(c, player_left(UserOf(c), player_info'[P1]))
            /\ UNCHANGED <<roomVars, kicked_players, gameVars>>
    /\ UNCHANGED storeVars

\* the receiver task starts: add_player and the player_joined event, or the
\* exception of add_player and the finally block
handle_messages(c) ==
    /\ sender[c] # "none"
    /\ Len(channel) < MaxEvents
    /\ Connect(c)
    /\ IF last'.result = "ok"
       THEN publish(player_joined(UserOf(c), player_info'[P1]))
       ELSE publish_and_cancel(c, player_left(UserOf(c), player_info'[P1]))

\* iter_text ends: the finally block and the return of the receiver
iter_text_ends(c) ==
    /\ Len(channel) < MaxEvents
    /\ Leave(c)
    /\ publish_and_cancel(c, player_left(UserOf(c), player_info'[P1]))

\* a play message: submit_action and, when it is accepted, player_ready
handle_player_action(c, a) ==
    /\ Len(channel) < MaxEvents
    /\ Play(c, a)
    /\ IF last'.result = "true"
       THEN publish(player_ready(UserOf(c), ready_players'[P1], player_info'[P1]))
       ELSE UNCHANGED busVars

\* handle_player_action without the error event of its except clause
handle_player_action_silent(c) ==
    /\ Len(channel) < MaxEvents
    /\ Resolve(c)
    /\ IF last'.op = "process_round" /\ last'.result = "ok"
       THEN publish(round_complete(last'.payload))
       ELSE UNCHANGED busVars

\* handle_player_action after its first publish: round_complete with the
\* results of process_round, the error event when it raised
handle_player_action_resumes(c) ==
    /\ Len(channel) < MaxEvents
    /\ Resolve(c)
    /\ IF last'.op # "process_round" THEN UNCHANGED busVars
       ELSE IF last'.result = "ok" THEN publish(round_complete(last'.payload))
       ELSE publish(round_failed)

\* a reset_game message: the game_reset event after the reset of a game
\* that was over
handle_reset_game(c) ==
    /\ Len(channel) < MaxEvents
    /\ Reset(c)
    /\ IF last'.result = "reset"
       THEN publish(game_reset(player_info'[P1], kicked_players'[P1]))
       ELSE UNCHANGED busVars

\* a kick_player message up to the close of the target's socket
handle_kick_player(c, host, target) ==
    /\ Len(channel) < MaxEvents
    /\ KickClose(c, host, target)
    /\ IF last'.result = "RuntimeError"
       THEN publish_and_cancel(c, player_left(UserOf(c), player_info'[P1]))
       ELSE UNCHANGED busVars

\* _handle_kick_player after the close: the kicked set and the event
handle_kick_player_resumes(c) ==
    /\ Len(channel) < MaxEvents
    /\ KickMark(c)
    /\ publish(kick_player_event(kick_host[c], kick_target[c], player_info'[P1],
                                 kicked_players'[P1]))

\* the receiver and sender tasks of the connections of one room
NextBus ==
    \/ \E c \in BusConns : create_task_group(c)
    \/ \E c \in BusConns : subscribe(c)
    \/ \E c \in BusConns : broadcast_to_client(c)
    \/ \E c \in BusConns : handle_messages(c)
    \/ \E c \in BusConns : iter_text_ends(c)
    \/ \E c \in BusConns, a \in BusActionInputs : handle_player_action(c, a)
    \/ \E c \in BusConns : handle_player_action_resumes(c)
    \/ \E c \in BusConns : handle_reset_game(c)
    \/ \E c \in BusConns, h \in BusHosts, t \in BusKickTargets :
          handle_kick_player(c, h, t)
    \/ \E c \in BusConns : handle_kick_player_resumes(c)

SpecBus == InitGateway /\ [][NextBus]_vars

\* the tasks of two connections of one user: the second is refused by
\* add_player and its finally block removes the player of the first, also
\* while the first is inside handle_player_action
NextDuplicate ==
    \/ \E c \in DupConns : create_task_group(c)
    \/ \E c \in DupConns : subscribe(c)
    \/ \E c \in DupConns : broadcast_to_client(c)
    \/ \E c \in DupConns : handle_messages(c)
    \/ \E c \in DupConns : iter_text_ends(c)
    \/ \E c \in DupConns, a \in BusActionInputs : handle_player_action(c, a)
    \/ \E c \in DupConns : handle_player_action_resumes(c)
    \/ \E c \in DupConns : handle_reset_game(c)

SpecDuplicate == InitGateway /\ [][NextDuplicate]_vars

\* ------------------------------------------------------------ user table
UsernamesOf(table) == {table[i].username : i \in DOMAIN table}

\* select(User).where(User.username == username).first(): the id of the row,
\* 0 (no id) when there is none
get_user_by_username(u) ==
    IF u \in UsernamesOf(users)
    THEN CHOOSE i \in DOMAIN users : users[i].username = u
    ELSE 0

\* the id a new row gets from the integer primary key
new_user_id == IF DOMAIN users = {} THEN 1
               ELSE (CHOOSE i \in DOMAIN users : \A j \in DOMAIN users : j <= i) + 1

\* a user table without the unique constraint on username
violates_unique_never(id, u) == FALSE

\* the commit of row id with username u breaks UserBase.username's unique=True
violates_unique(id, u) == \E j \in DOMAIN users : j # id /\ users[j].username = u

\* get_current_active_user: the token's subject resolves to an enabled row
authenticated(caller) ==
    /\ get_user_by_username(caller) # 0
    /\ ~users[get_user_by_username(caller)].disabled

\* register and create_user without the lookup of the username
username_exists_unchecked(u) == FALSE

\* db_user = get_user_by_username(session, user.username); if db_user: raise
username_exists(u) == get_user_by_username(u) # 0

\* session.add(User(username, hashed_password)); session.commit()
insert_user(op, u) ==
    IF violates_unique(0, u)
    THEN /\ last' = Call(op, 0, "IntegrityError")
         /\ UNCHANGED users
    ELSE /\ new_user_id <= MaxUserId
         /\ last' = Call(op, new_user_id, "ok")
         /\ users' = MapSet(users, new_user_id, [username |-> u, disabled |-> FALSE])

Register(u) ==
    /\ IF username_exists(u)
       THEN /\ last' = Call("register", 0, "Conflict")
            /\ UNCHANGED users
       ELSE insert_user("register", u)
    /\ UNCHANGED <<gameStateVars, gatewayVars, busVars, messages, sideVars>>

CreateUser(caller, u) ==
    /\ IF ~authenticated(caller)
       THEN /\ last' = Call("create_user", 0, "Unauthenticated")
            /\ UNCHANGED users
       ELSE IF username_exists(u)
       THEN /\ last' = Call("create_user", 0, "Conflict")
            /\ UNCHANGED users
       ELSE insert_user("create_user", u)
    /\ UNCHANGED <<gameStateVars, gatewayVars, busVars, messages, sideVars>>

\* user_db.sqlmodel_update(user_data); session.commit(): the fields given
\* (not None) are set; d is the JSON value of disabled, "true" or "false"
commit_update(op, id, u, d) ==
    LET row == [username |-> IF u = None THEN users[id].username ELSE u,
                disabled |-> IF d = None THEN users[id].disabled ELSE d = "true"]
    IN  IF violates_unique(id, row.username)
        THEN /\ last' = Call(op, id, "IntegrityError")
             /\ UNCHANGED users
        ELSE /\ last' = Call(op, id, "ok")
             /\ users' = [users EXCEPT ![id] = row]

UpdateUser(caller, id, u, d) ==
    /\ IF ~authenticated(caller)
       THEN /\ last' = Call("update_user", id, "Unauthenticated")
            /\ UNCHANGED users
       ELSE IF id \notin DOMAIN users
       THEN /\ last' = Call("update_user", id, "NotFound")
            /\ UNCHANGED users
       ELSE commit_update("update_user", id, u, d)
    /\ UNCHANGED <<gameStateVars, gatewayVars, busVars, messages, sideVars>>

ChangeUsername(caller, id, u) ==
    /\ IF ~authenticated(caller)
       THEN /\ last' = Call("change_username", id, "Unauthenticated")
            /\ UNCHANGED users
       ELSE IF get_user_by_username(caller) # id
       THEN /\ last' = Call("change_username", id, "Forbidden")
            /\ UNCHANGED users
       ELSE commit_update("change_username", id, u, None)
    /\ UNCHANGED <<gameStateVars, gatewayVars, busVars, messages, sideVars>>

DeleteUser(caller, id) ==
    /\ IF ~authenticated(caller)
       THEN /\ last' = Call("delete_user", id, "Unauthenticated")
            /\ UNCHANGED users
       ELSE IF get_user_by_username(caller) = id
       THEN /\ last' = Call("delete_user", id, "InvalidOperation")
            /\ UNCHANGED users
       ELSE IF id \notin DOMAIN users
       THEN /\ last' = Call("delete_user", id, "NotFound")
            /\ UNCHANGED users
       ELSE /\ last' = Call("delete_user", id, "ok")
            /\ users' = MapDel(users, id)
    /\ UNCHANGED <<gameStateVars, gatewayVars, busVars, messages, sideVars>>

\* the user management API, one request at a time
NextUsers ==
    \/ \E u \in Users : Register(u)
    \/ \E c \in Users, u \in Users : CreateUser(c, u)
    \/ \E c \in Users, id \in 1..MaxUserId, u \in Users \cup {None},
          d \in {"true", "false", None} : UpdateUser(c, id, u, d)
    \/ \E c \in Users, id \in 1..MaxUserId, u \in Users \cup {None} :
          ChangeUsername(c, id, u)
    \/ \E c \in Users, id \in 1..MaxUserId : DeleteUser(c, id)

SpecUsers == Init /\ [][NextUsers]_vars

\* --------------------------------------------------------- authentication
\* A bearer token is what a client presents: form is "absent" (no token
\* given), "malformed" or "jwt"; sig says whether the signature was made
\* with SECRET_KEY, exp whether the expiry lies ahead, sub is the subject.
\* id records the account the token was issued to, 0 for a token the
\* server never issued; no code reads it.

\* create_access_token(data={"sub": user.username}, expires_delta)
create_access_token(u, id) ==
    [form |-> "jwt", sig |-> "valid", exp |-> "valid", sub |-> u, id |-> id]

\* the tokens a client can present that the server did not issue
Forged ==
    {[form |-> "absent", sig |-> "invalid", exp |-> "valid", sub |-> None, id |-> 0],
     [form |-> "malformed", sig |-> "invalid", exp |-> "valid", sub |-> None, id |-> 0],
     [form |-> "jwt", sig |-> "valid", exp |-> "valid", sub |-> None, id |-> 0]}
    \cup {[form |-> "jwt", sig |-> "invalid", exp |-> "valid", sub |-> u, id |-> 0] :
             u \in AuthNames}

\* the tokens a client can present: an issued one, before or after its
\* expiry, or a forged one
Presented ==
    {[t EXCEPT !.exp = e] : t \in tokens, e \in {"valid", "expired"}} \cup Forged

\* every token of the model
TokenInputs ==
    [form : {"absent", "malformed", "jwt"}, sig : {"valid", "invalid"},
     exp : {"valid", "expired"}, sub : AuthNames \cup {None}, id : 0..MaxUserId]

\* jwt.decode that does not look at the expiry
jwt_decode_ignores_exp(t) ==
    IF t.form # "jwt" THEN "DecodeError"
    ELSE IF t.sig # "valid" THEN "InvalidSignatureError"
    ELSE "payload"

\* jwt.decode(token, SECRET_KEY, algorithms=[ALGORITHM]): the payload, or
\* the InvalidTokenError it raises
jwt_decode(t) ==
    IF t.form # "jwt" THEN "DecodeError"
    ELSE IF t.sig # "valid" THEN "InvalidSignatureError"
    ELSE IF t.exp # "valid" THEN "ExpiredSignatureError"
    ELSE "payload"

\* the id of the user row a presented token resolves to, 0 when the token
\* is absent, jwt.decode raises, the payload has no subject or no row has
\* the subject as its username
resolve(t) ==
    IF t.form = "absent" THEN 0
    ELSE IF jwt_decode(t) # "payload" THEN 0
    ELSE IF t.sub = None THEN 0
    ELSE get_user_by_username(t.sub)

\* POST /token with the password of the account: a token of its username
login_for_access_token(u) ==
    /\ IF get_user_by_username(u) = 0
       THEN /\ last' = Call("login_for_access_token", 0, "Unauthorized")
            /\ UNCHANGED tokens
       ELSE /\ Cardinality(tokens) < MaxTokens
            /\ last' = Call("login_for_access_token", get_user_by_username(u), "ok")
            /\ tokens' = tokens \cup {create_access_token(u, get_user_by_username(u))}
    /\ UNCHANGED <<gameStateVars, gatewayVars, busVars, users, messages, room_db,
                   rooms, lobby_rooms, lobby_players>>

\* the dependency of every authenticated HTTP route
get_current_user(t) ==
    /\ t \in Presented
    /\ last' = [Call("get_current_user", resolve(t),
                     IF resolve(t) = 0 THEN "Unauthorized" ELSE "ok")
                   EXCEPT !.payload = t]
    /\ UNCHANGED <<gameStateVars, gatewayVars, busVars, storeVars>>

\* websocket_endpoint up to the task group: the connection is closed
\* without being accepted, or accepted and its two tasks started
authenticate_websocket(c, t) ==
    /\ t \in Presented
    /\ handler[c] = "none"
    /\ sender[c] = "none"
    /\ IF resolve(t) = 0
       THEN /\ last' = [Call("authenticate_websocket", 0, "WS_1008_POLICY_VIOLATION")
                           EXCEPT !.payload = t]
            /\ UNCHANGED sender
       ELSE /\ last' = [Call("authenticate_websocket", resolve(t), "ok")
                           EXCEPT !.payload = t]
            /\ sender' = [sender EXCEPT ![c] = "subscribing"]
    /\ UNCHANGED <<gameStateVars, gatewayVars, channel, subscriber, storeVars>>

\* the user management API, the login and the two places that resolve a
\* bearer token
NextAuth ==
    \/ \E u \in AuthNames : Register(u)
    \/ \E c \in AuthNames, u \in AuthNames : CreateUser(c, u)
    \/ \E c \in AuthNames, id \in 1..MaxUserId, u \in AuthNames \cup {None},
          d \in {"true", "false", None} : UpdateUser(c, id, u, d)
    \/ \E c \in AuthNames, id \in 1..MaxUserId, u \in AuthNames \cup {None} :
          ChangeUsername(c, id, u)
    \/ \E c \in AuthNames, id \in 1..MaxUserId : DeleteUser(c, id)
    \/ \E u \in AuthNames : login_for_access_token(u)
    \/ \E t \in TokenInputs : get_current_user(t)
    \/ \E c \in AuthConns, t \in TokenInputs : authenticate_websocket(c, t)

SpecAuth == Init /\ [][NextAuth]_vars

\* --------------------------------------------------------- message history
Min(a, b) == IF a <= b THEN a ELSE b

\* session.add(Message(room_id, ...)); session.commit(): created_at is the
\* time of the insert, later than that of every row before
ChatMessage(r) ==
    /\ Len(messages) < MaxMessages
    /\ r = 1 \/ Cardinality({i \in 1..Len(messages) : messages[i].room_id # 1}) < MaxOtherRows
    /\ messages' = Append(messages, [id |-> Len(messages) + 1, room_id |-> r,
                                      created_at |-> Len(messages) + 1])
    /\ last' = Call("message", r, "ok")
    /\ UNCHANGED <<gameStateVars, gatewayVars, busVars, users, sideVars>>

\* .where(Message.room_id == int(room_id))
where_room(r) == {messages[i] : i \in {j \in 1..Len(messages) : messages[j].room_id = r}}

RECURSIVE order_by_asc(_)
\* .order_by(Message.created_at)
order_by_asc(rows) ==
    IF rows = {} THEN <<>>
    ELSE LET m == CHOOSE r \in rows : \A q \in rows : r.created_at <= q.created_at
         IN  <<m>> \o order_by_asc(rows \ {m})

RECURSIVE order_by_desc(_)
\* .order_by(Message.created_at.desc())
order_by_desc(rows) ==
    IF rows = {} THEN <<>>
    ELSE LET m == CHOOSE r \in rows : \A q \in rows : q.created_at <= r.created_at
         IN  <<m>> \o order_by_desc(rows \ {m})

\* .limit(n)
limit(s, n) == SubSeq(s, 1, Min(n, Len(s)))

\* reversed(messages)
reversed(s) == [i \in 1..Len(s) |-> s[Len(s) + 1 - i]]

\* the ids of the rows framed, in the order the frames are sent
frames(s) == [i \in 1..Len(s) |-> s[i].id]

\* send_message_history of the gateway
history_frames(r) == frames(reversed(limit(order_by_desc(where_room(r)), HISTORY_LIMIT)))

\* the history loop of the endpoint of src/routers/websocket.py
endpoint_history_frames(r) == frames(limit(order_by_asc(where_room(r)), HISTORY_LIMIT))

send_message_history(r) ==
    /\ last' = [Call("send_message_history", r, "ok")
                   EXCEPT !.payload = history_frames(r)]
    /\ UNCHANGED <<gameStateVars, gatewayVars, busVars, storeVars>>

websocket_endpoint(r) ==
    /\ last' = [Call("websocket_endpoint", r, "ok")
                   EXCEPT !.payload = endpoint_history_frames(r)]
    /\ UNCHANGED <<gameStateVars, gatewayVars, busVars, storeVars>>

\* chat rows are written and clients connect to either endpoint
NextHistory ==
    \/ \E r \in Rooms : ChatMessage(r)
    \/ \E r \in Rooms : send_message_history(r)
    \/ \E r \in Rooms : websocket_endpoint(r)

SpecHistory == Init /\ [][NextHistory]_vars

\* ----------------------------------------------------------------- frames
\* The text frames a client sends, as json.loads and the handlers of
\* _process_message read them: a frame is malformed JSON, a JSON array or
\* a JSON object with a type and a "message" field.

\* a JSON value of the "message" field: a number n, a string s, null, or
\* "absent" when the object has no such field
JValue(t, n, s) == [t |-> t, n |-> n, s |-> s]

Frame(json, type, message) == [json |-> json, type |-> type, message |-> message]

\* the frames of the clients
FrameInputs ==
    {Frame("malformed", None, JValue("absent", 0, "")),
     Frame("array", None, JValue("absent", 0, ""))}
        \cup {Frame("object", "play", m) :
                 m \in {JValue("int", 0, ""), JValue("int", 1, ""),
                        JValue("int", 0 - 1, ""), JValue("str", 0, "1"),
                        JValue("str", 0, "abc"), JValue("null", 0, ""),
                        JValue("absent", 0, "")}}

\* int(msg_data.get("message", 0)): the exception it raises ("none" without
\* one) and its value; the missing field reads 0, a string is converted
\* when it spells a number
python_int(v) ==
    LET Numerals == ("0" :> 0) @@ ("1" :> 1) @@ ("2" :> 2)
    IN  CASE v.t = "absent" -> [raises |-> "none", n |-> 0]
          [] v.t = "int" -> [raises |-> "none", n |-> v.n]
          [] v.t = "str" -> IF v.s \in DOMAIN Numerals
                            THEN [raises |-> "none", n |-> Numerals[v.s]]
                            ELSE [raises |-> "ValueError", n |-> 0]
          [] OTHER -> [raises |-> "TypeError", n |-> 0]

\* the exception json.loads and _process_message raise on a play frame up
\* to the call of handle_player_action, "none" without one
frame_raises(f) ==
    IF f.json = "malformed" THEN "JSONDecodeError"
    ELSE IF f.json = "array" THEN "AttributeError"
    ELSE python_int(f.message).raises

\* except (json.JSONDecodeError, ValueError) of the receive loop
caught(e) == e \in {"JSONDecodeError", "ValueError"}

\* one frame of websocket.iter_text(): a play frame goes to
\* handle_player_action, an exception the loop catches is answered with the
\* error frame, any other exception leaves the loop through the finally
\* block of handle_messages
iter_text(c, f) ==
    /\ receiving(c)
    /\ IF frame_raises(f) = "none"
       THEN Play(c, python_int(f.message).n)
       ELSE IF caught(frame_raises(f))
       THEN /\ last' = [Call("iter_text", 0, "Invalid message format")
                           EXCEPT !.payload = f]
            /\ UNCHANGED <<gameStateVars, gatewayVars, storeVars>>
       ELSE /\ last' = [Call("iter_text", 0, frame_raises(f)) EXCEPT !.payload = f]
            /\ leave(c)
            /\ UNCHANGED <<roomVars, kicked_players, gameVars, storeVars>>

\* _handle_chat_message without its Message row
handle_chat_message_unsaved(c) ==
    /\ receiving(c)
    /\ Len(messages) < MaxChat
    /\ last' = Call("message", 1, "ok")
    /\ handler' = [handler EXCEPT ![c] = "chatting"]
    /\ UNCHANGED <<gameStateVars, socket, owner, kick_target, kick_host, busVars,
                   storeVars>>

\* a frame of type "message": session.add(Message(...)); session.commit()
handle_chat_message(c) ==
    /\ receiving(c)
    /\ Len(messages) < MaxChat
    /\ messages' = Append(messages, [id |-> Len(messages) + 1, room_id |-> 1,
                                      created_at |-> Len(messages) + 1])
    /\ last' = Call("message", 1, "ok")
    /\ handler' = [handler EXCEPT ![c] = "chatting"]
    /\ UNCHANGED <<gameStateVars, socket, owner, kick_target, kick_host, busVars,
                   users, sideVars>>

\* _handle_chat_message after the commit: the event {"type": "message",
\* "username", "message", "timestamp"} is published
handle_chat_message_resumes(c) ==
    /\ handler[c] = "chatting"
    /\ last' = Call("broadcast_to_room", 1, "message")
    /\ publish(Event("message", UserOf(c)))
    /\ handler' = [handler EXCEPT ![c] = "loop"]
    /\ UNCHANGED <<gameStateVars, socket, owner, kick_target, kick_host, storeVars>>

\* the receiver tasks of two connections, frame by frame
NextFrames ==
    \/ \E c \in BusConns : Connect(c) /\ UNCHANGED busVars
    \/ \E c \in BusConns : Leave(c) /\ UNCHANGED busVars
    \/ \E c \in BusConns, f \in FrameInputs : iter_text(c, f) /\ UNCHANGED busVars
    \/ \E c \in BusConns : Resolve(c) /\ UNCHANGED busVars
    \/ \E c \in BusConns : Start(c) /\ UNCHANGED busVars
    \/ \E c \in BusConns : Reset(c) /\ UNCHANGED busVars
    \/ \E c \in BusConns : handle_chat_message(c)
    \/ \E c \in BusConns : handle_chat_message_resumes(c)

SpecFrames == InitGateway /\ [][NextFrames]_vars

\* --------------------------------------------------------- room registry
\* RoomManager.rooms of one server process. get_or_create_room has no await
\* (session.exec is a blocking call), so a call runs in one piece. The
\* registry is keyed by the room_id string of the path /ws/{room_id}; the
\* Room row is selected by int(room_id).

\* the room_id strings of the paths clients connect to, with int(room_id)
RoomPaths == {"1", "01", "2", "9"}
path_int == ("1" :> 1) @@ ("01" :> 1) @@ ("2" :> 2) @@ ("9" :> 9)

\* select(Room).where(Room.id == id).first() finds a row
room_row_exists(id) == id \in Rooms

\* GameState(room_id, max_players, number_of_actions, ...), the n-th object
\* constructed by the process
GameState(id, n) == [room_id |-> id, serial |-> n, connections |-> {}]

\* the instance of the path's room_id, constructed from the Room row on the
\* first reference
get_or_create_room(k) ==
    /\ IF k \in DOMAIN rooms
       THEN /\ last' = [Call("get_or_create_room", path_int[k], "ok")
                           EXCEPT !.payload = [key |-> k]]
            /\ UNCHANGED rooms
       ELSE IF ~room_row_exists(path_int[k])
       THEN /\ last' = [Call("get_or_create_room", path_int[k], "ValueError")
                           EXCEPT !.payload = [key |-> k]]
            /\ UNCHANGED rooms
       ELSE /\ rooms' = MapSet(rooms, k,
                            GameState(path_int[k], Cardinality(DOMAIN rooms) + 1))
            /\ last' = [Call("get_or_create_room", path_int[k], "ok")
                           EXCEPT !.payload = [key |-> k]]
    /\ UNCHANGED <<gameStateVars, gatewayVars, busVars, users, messages, room_db,
                   tokens, lobby_rooms, lobby_players>>

\* room.add_player(...) on the instance handle_messages got for its path
room_add_player(k, u) ==
    /\ k \in DOMAIN rooms
    /\ u \notin rooms[k].connections
    /\ rooms' = [rooms EXCEPT ![k].connections = @ \cup {u}]
    /\ last' = [Call("add_player", path_int[k], "ok") EXCEPT !.payload = [key |-> k]]
    /\ UNCHANGED <<gameStateVars, gatewayVars, busVars, users, messages, room_db,
                   tokens, lobby_rooms, lobby_players>>

\* the sockets of one process connect to the paths
NextRegistry ==
    \/ \E k \in RoomPaths : get_or_create_room(k)
    \/ \E k \in RoomPaths, u \in Users : room_add_player(k, u)

SpecRegistry == Init /\ [][NextRegistry]_vars

\* ------------------------------------------------------- in-memory lobby
\* GameManager of src/app/services/game_manager.py (and of src/main.py):
\* synchronous methods on two dicts, rooms and players.

\* str(uuid.uuid4())[:8]: the ids handed out, in order; callers name them
\* created or not
LobbyRoomIds == <<"r1", "r2", "r3">>
LobbyPlayerIds == <<"u1", "u2", "u3", "u4">>
\* the max_players a room is created with
LobbySizes == {1, 2}

\* self.rooms[room_id] = Room(room_id, name, max_players, number_of_actions)
create_room(size) ==
    /\ Cardinality(DOMAIN lobby_rooms) < MaxLobbyRooms
    /\ lobby_rooms' = MapSet(lobby_rooms,
                             LobbyRoomIds[Cardinality(DOMAIN lobby_rooms) + 1],
                             [max_players |-> size, players |-> {}])
    /\ last' = Call("create_room", size, "ok")
    /\ UNCHANGED <<gameStateVars, gatewayVars, busVars, users, messages, room_db,
                   tokens, rooms, lobby_players>>

\* self.players[player_id] = Player(player_id, name)
create_player ==
    /\ Cardinality(DOMAIN lobby_players) < MaxLobbyPlayers
    /\ lobby_players' = MapSet(lobby_players,
                               LobbyPlayerIds[Cardinality(DOMAIN lobby_players) + 1],
                               [current_room |-> None])
    /\ last' = Call("create_player", 0, "ok")
    /\ UNCHANGED <<gameStateVars, gatewayVars, busVars, users, messages, room_db,
                   tokens, rooms, lobby_rooms>>

\* the rooms after leave_room(player_id)
rooms_after_leave(pid) ==
    IF pid \notin DOMAIN lobby_players \/ lobby_players[pid].current_room = None
    THEN lobby_rooms
    ELSE IF lobby_players[pid].current_room \in DOMAIN lobby_rooms
    THEN [lobby_rooms EXCEPT ![lobby_players[pid].current_room].players = @ \ {pid}]
    ELSE lobby_rooms

\* the players after leave_room(player_id)
players_after_leave(pid) ==
    IF pid \notin DOMAIN lobby_players \/ lobby_players[pid].current_room = None
    THEN lobby_players
    ELSE [lobby_players EXCEPT ![pid].current_room = None]

leave_room(pid) ==
    /\ lobby_rooms' = rooms_after_leave(pid)
    /\ lobby_players' = players_after_leave(pid)
    /\ last' = [Call("leave_room", 0, "ok") EXCEPT !.payload =
                   [player |-> pid, room |-> None, from |-> None]]
    /\ UNCHANGED <<gameStateVars, gatewayVars, busVars, users, messages, room_db,
                   tokens, rooms>>

\* the checks of join_room
join_room_accepts(pid, rid) ==
    /\ pid \in DOMAIN lobby_players
    /\ rid \in DOMAIN lobby_rooms
    /\ ~(Cardinality(lobby_rooms[rid].players) >= lobby_rooms[rid].max_players)

\* join_room without the leave_room of the player's current room
join_room_keeps_seat(pid, rid) ==
    /\ IF join_room_accepts(pid, rid)
       THEN /\ lobby_rooms' = [lobby_rooms EXCEPT ![rid].players = @ \cup {pid}]
            /\ lobby_players' = [lobby_players EXCEPT ![pid].current_room = rid]
            /\ last' = [Call("join_room", 0, "true") EXCEPT !.payload =
                           [player |-> pid, room |-> rid,
                            from |-> lobby_players[pid].current_room]]
       ELSE /\ last' = [Call("join_room", 0, "false") EXCEPT !.payload =
                           [player |-> pid, room |-> rid, from |-> None]]
            /\ UNCHANGED <<lobby_rooms, lobby_players>>
    /\ UNCHANGED <<gameStateVars, gatewayVars, busVars, users, messages, room_db,
                   tokens, rooms>>

join_room(pid, rid) ==
    /\ IF join_room_accepts(pid, rid)
       THEN /\ lobby_rooms' = [rooms_after_leave(pid) EXCEPT ![rid].players = @ \cup {pid}]
            /\ lobby_players' = [lobby_players EXCEPT ![pid].current_room = rid]
            /\ last' = [Call("join_room", 0, "true") EXCEPT !.payload =
                           [player |-> pid, room |-> rid,
                            from |-> lobby_players[pid].current_room]]
       ELSE /\ last' = [Call("join_room", 0, "false") EXCEPT !.payload =
                           [player |-> pid, room |-> rid, from |-> None]]
            /\ UNCHANGED <<lobby_rooms, lobby_players>>
    /\ UNCHANGED <<gameStateVars, gatewayVars, busVars, users, messages, room_db,
                   tokens, rooms>>

\* the calls of the lobby's routes
NextLobby ==
    \/ \E size \in LobbySizes : create_room(size)
    \/ create_player
    \/ \E i \in DOMAIN LobbyPlayerIds, j \in DOMAIN LobbyRoomIds :
          join_room(LobbyPlayerIds[i], LobbyRoomIds[j])
    \/ \E i \in DOMAIN LobbyPlayerIds : leave_room(LobbyPlayerIds[i])

SpecLobby == Init /\ [][NextLobby]_vars

\* ================================================================ claims
\* the value current_round.actions holds for username u, None without one
ActionOf(acts, u) ==
    IF u \in Names(acts) THEN acts[IndexOf(acts, u)].action ELSE None

\* the number of entries current_round.actions holds for username u
EntriesOf(acts, u) == Cardinality({i \in 1..Len(acts) : acts[i].username = u})

\* the connected players whose elimination flag is not set
Active == {u \in connections[P1] : ~player_info[P1][u].is_eliminated}

\* sanity of the model's state
TypeOK ==
    /\ max_players \in RoomSizes \cup GatewayRoomSizes
    /\ number_of_actions \in ActionCounts
    /\ number_of_players \in Int
    /\ \A p \in Procs :
        /\ connections[p] \subseteq Users
        /\ DOMAIN player_info[p] \subseteq Users
        /\ \A u \in DOMAIN player_info[p] :
              /\ player_info[p][u].actions_submitted \in 0..MaxSubmitted
              /\ player_info[p][u].is_eliminated \in BOOLEAN
        /\ kicked_players[p] \subseteq Users
        /\ game_active[p] \in BOOLEAN /\ game_over[p] \in BOOLEAN
        /\ winner[p] \in Users \cup {None}
        /\ round_number[p] \in 1..MaxRound
        /\ Names(actions[p]) \subseteq DOMAIN player_info[p]
        /\ ready_players[p] \subseteq Users
        /\ eliminated_players[p] \subseteq Users

\* C1: AddPlayer(username) is rejected with an error when the room is full
\* (RoomFull), the username is already connected (AlreadyPresent) or the
\* username was kicked (PreviouslyKicked), the error naming a condition that
\* holds, and a rejected AddPlayer leaves the connection table, the player
\* info, the round state and the persisted counter unchanged.
C1_AddPlayerRejected ==
    [][\A u \in Users :
        (/\ last'.op = "add_player"
         /\ AddPlayer(P1, u)
         /\ \/ Cardinality(connections[P1]) >= max_players
            \/ u \in connections[P1]
            \/ u \in kicked_players[P1])
        => /\ last'.result \in {"RoomFull", "AlreadyPresent", "PreviouslyKicked"}
           /\ last'.result = "RoomFull"
                  => Cardinality(connections[P1]) >= max_players
           /\ last'.result = "AlreadyPresent" => u \in connections[P1]
           /\ last'.result = "PreviouslyKicked" => u \in kicked_players[P1]
           /\ UNCHANGED <<connections, player_info, round_number, actions,
                          ready_players, number_of_players>>]_vars

\* C1 witness: a kicked username that left a room with free seats has just
\* been refused, while a round with a submitted action is under way
C1_Witness ==
    /\ last.op = "add_player"
    /\ last.result = "PreviouslyKicked"
    /\ actions[P1] # <<>>
    /\ number_of_players > 0

\* C2: the persisted live-player counter never exceeds max_players, on one
\* or on several server processes sharing the room's row.
C2_CounterWithinMax == number_of_players <= max_players

\* C3: SubmitAction returns false and changes nothing (action map, ready set,
\* submitted-action counters, game flags) when the username is not in the
\* room, the player is eliminated, the game is over, or the action is
\* outside [0, number_of_actions).
C3_SubmitRejected ==
    [][\A u \in Users, a \in ActionInputs :
        (/\ last'.op = "submit_action"
         /\ last'.arg = a
         /\ SubmitAction(P1, u, a)
         /\ \/ u \notin connections[P1]
            \/ (u \in connections[P1] /\ player_info[P1][u].is_eliminated)
            \/ game_over[P1]
            \/ a \notin 0..(number_of_actions - 1))
        => /\ last'.result = "false"
           /\ UNCHANGED <<actions, ready_players, player_info, game_active,
                          game_over, winner>>]_vars

\* C3 witness: an action equal to number_of_actions has just been refused in
\* a game that is not over where every user is connected and not eliminated,
\* so the range check alone refused it
C3_Witness ==
    /\ last.op = "submit_action"
    /\ last.result = "false"
    /\ last.arg = number_of_actions
    /\ ~game_over[P1]
    /\ Active = Users
    /\ actions[P1] # <<>>

\* C4 as stated: a legal SubmitAction from a connected, non-eliminated player
\* in a game that is not over returns true, records the action, increments
\* the player's submitted-action counter by one and makes the ready set one
\* entry larger.
C4_SubmitAddsOneReadyEntry ==
    [][\A u \in Users, a \in ActionInputs :
        (/\ last'.op = "submit_action"
         /\ last'.arg = a
         /\ SubmitAction(P1, u, a)
         /\ u \in connections[P1]
         /\ ~player_info[P1][u].is_eliminated
         /\ ~game_over[P1]
         /\ a \in 0..(number_of_actions - 1))
        => /\ last'.result = "true"
           /\ ActionOf(actions'[P1], u) = a
           /\ player_info'[P1][u].actions_submitted
                  = player_info[P1][u].actions_submitted + 1
           /\ Cardinality(ready_players'[P1])
                  = Cardinality(ready_players[P1]) + 1]_vars

\* C4 amended: such a SubmitAction returns true, leaves exactly one entry for
\* the username in the action map, holding the action, increments the
\* player's submitted-action counter by one, and the ready set becomes the
\* old one plus the username: one entry more when the player had not yet
\* submitted in this round, none on a resubmission.
C4_SubmitAccepted ==
    [][\A u \in Users, a \in ActionInputs :
        (/\ last'.op = "submit_action"
         /\ last'.arg = a
         /\ SubmitAction(P1, u, a)
         /\ u \in connections[P1]
         /\ ~player_info[P1][u].is_eliminated
         /\ ~game_over[P1]
         /\ a \in 0..(number_of_actions - 1))
        => /\ last'.result = "true"
           /\ ActionOf(actions'[P1], u) = a
           /\ EntriesOf(actions'[P1], u) = 1
           /\ player_info'[P1][u].actions_submitted
                  = player_info[P1][u].actions_submitted + 1
           /\ ready_players'[P1] = ready_players[P1] \cup {u}
           /\ Cardinality(ready_players'[P1])
                  = Cardinality(ready_players[P1])
                    + (IF u \in ready_players[P1] THEN 0 ELSE 1)]_vars

\* C4 witness: a player has just resubmitted in the same round: two
\* submissions counted, one ready entry
C4_Witness ==
    /\ last.op = "submit_action"
    /\ last.result = "true"
    /\ \E u \in ready_players[P1] :
          /\ u \in connections[P1]
          /\ player_info[P1][u].actions_submitted = 2
          /\ ready_players[P1] = {u}
          /\ round_number[P1] = 1
          /\ eliminated_players[P1] = {}

\* C5: AllPlayersReady() is true exactly when the ready-set size equals the
\* number of connected non-eliminated players; with 2 active players and 1
\* action submitted it is false, and once both have submitted it is true.
C5_AllPlayersReady ==
    /\ all_players_ready(P1) <=> (Cardinality(ready_players[P1]) = Cardinality(Active))
    /\ (Cardinality(Active) = 2 /\ Len(actions[P1]) = 1) => ~all_players_ready(P1)
    /\ (Cardinality(Active) = 2 /\ Active \subseteq Names(actions[P1]))
          => all_players_ready(P1)

\* C5 witness: two active players beside an eliminated one, both have submitted
C5_Witness ==
    /\ last.op = "submit_action"
    /\ last.result = "true"
    /\ Cardinality(Active) = 2
    /\ Cardinality(connections[P1]) = 3
    /\ Active = Names(actions[P1])
    /\ all_players_ready(P1)

C7_ProcessRoundPrecondition ==
    [][(/\ last'.op = "process_round"
        /\ Cardinality(ready_players[P1]) < Cardinality(Active)
        /\ \E elim \in SUBSET (0..(Cardinality(Users) - 1)) : ProcessRound(P1, elim))
        => /\ last'.result = "PreconditionFailed"
           /\ UNCHANGED <<round_number, actions, ready_players, player_info,
                          eliminated_players, game_active, game_over, winner>>]_vars

\* C7 witness: ProcessRound has just failed with one of two active players ready
C7_Witness ==
    /\ last.op = "process_round"
    /\ last.result = "PreconditionFailed"
    /\ Cardinality(ready_players[P1]) = 1
    /\ Cardinality(Active) = 2

C9_GameOver ==
    [][(/\ last'.op = "process_round"
        /\ last'.result = "ok"
        /\ Cardinality(ActiveOf(player_info'[P1])) <= 1
        /\ \E elim \in SUBSET (0..(Cardinality(Users) - 1)) : ProcessRound(P1, elim))
        => /\ game_over'[P1]
           /\ ~game_active'[P1]
           /\ \A u \in Users : ActiveOf(player_info'[P1]) = {u} => winner'[P1] = u
           /\ ActiveOf(player_info'[P1]) = {} => winner'[P1] = None]_vars

\* C9 witness: a round of a three-player game has just left one player
C9_Witness ==
    /\ last.op = "process_round"
    /\ last.result = "ok"
    /\ Cardinality(connections[P1]) = 3
    /\ Cardinality(Active) = 1
    /\ game_over[P1]
    /\ winner[P1] \in Active

\* C10: once the game is over every SubmitAction returns false and no round
\* is resolved, until ResetGame or a successful StartGame.
C10_OverIsTerminal ==
    [][game_over[P1] =>
        /\ \A u \in Users, a \in ActionInputs :
              (last'.op = "submit_action" /\ SubmitAction(P1, u, a))
                 => last'.result = "false"
        /\ ~(/\ last'.op = "process_round"
             /\ last'.result = "ok"
             /\ \E elim \in SUBSET (0..(Cardinality(Users) - 1)) :
                    ProcessRound(P1, elim))]_vars

\* C11: ResetGame after a completed game clears the winner, sets the round
\* number back to 1 with an empty action map and ready set, clears the
\* eliminated set and the elimination flag of every remaining player, and
\* leaves the kicked set and the connection table unchanged, so that a
\* username kicked before the reset is still rejected by AddPlayer after it.
C11_ResetGame ==
    [][(/\ last'.op = "reset_game"
        /\ game_over[P1]
        /\ ResetGame(P1))
        => /\ winner'[P1] = None
           /\ round_number'[P1] = 1
           /\ actions'[P1] = <<>>
           /\ ready_players'[P1] = {}
           /\ eliminated_players'[P1] = {}
           /\ DOMAIN player_info'[P1] = DOMAIN player_info[P1]
           /\ \A u \in DOMAIN player_info'[P1] : ~player_info'[P1][u].is_eliminated
           /\ UNCHANGED <<kicked_players, connections>>
           /\ \A u \in kicked_players[P1] : add_player_check(P1, u)' # "ok"]_vars

\* C11 witness: a completed game has just been reset in a room with a free
\* seat, a connected player and a kicked username that has left
C11_Witness ==
    /\ last.op = "reset_game"
    /\ last.result = "was_over"
    /\ connections[P1] # {}
    /\ kicked_players[P1] \ connections[P1] # {}
    /\ ~is_full(P1)
    /\ \E u \in connections[P1] : player_info[P1][u].actions_submitted > 0

\* C12: once a username has been kicked from a room it is barred for good:
\* a kick that goes through puts its target in the kicked set, the kicked
\* set only grows, and no AddPlayer for a username of the kicked set
\* succeeds, whatever leaves, rounds, StartGame or ResetGame came between.
C12_KickedForGood ==
    [][/\ kicked_players[P1] \subseteq kicked_players'[P1]
       /\ \A h \in Users, t \in KickTargets :
             (/\ last'.op = "kick_player"
              /\ last'.result = "ok"
              /\ KickPlayer(P1, h, t)) => t \in kicked_players'[P1]
       /\ \A u \in kicked_players[P1] :
             (last'.op = "add_player" /\ AddPlayer(P1, u))
                => (last'.result # "ok" /\ u \notin connections'[P1] \ connections[P1])]_vars

\* C12 witness: a kicked username is refused in a room with a free seat,
\* after actions were played and the game was reset
C12_Witness ==
    /\ last.op = "add_player"
    /\ last.result = "PreviouslyKicked"
    /\ ~game_over[P1] /\ ~game_active[P1]
    /\ round_number[P1] = 1
    /\ actions[P1] = <<>>
    /\ \E u \in connections[P1] : player_info[P1][u].actions_submitted = MaxSubmitted

\* C16: the payload ProcessRound returns carries in its 'round' field the
\* number of the round just completed, when the game continues and when
\* that round ends the game.
C16_PayloadRound ==
    [][(/\ last'.op = "process_round"
        /\ last'.result = "ok"
        /\ \E elim \in SUBSET (0..(Cardinality(Users) - 1)) : ProcessRound(P1, elim))
        => last'.payload.round = round_number[P1]]_vars

\* C17: the payload ProcessRound returns carries in its 'actions' field the
\* username-to-action map submitted for the round just resolved, when the
\* game continues and when it ends.
C17_PayloadActions ==
    [][(/\ last'.op = "process_round"
        /\ last'.result = "ok"
        /\ \E elim \in SUBSET (0..(Cardinality(Users) - 1)) : ProcessRound(P1, elim))
        => last'.payload.actions = actions[P1]]_vars

\* C19: a username eliminated in the current game (a member of the eliminated
\* set, which only ResetGame and a successful StartGame clear) is not among
\* the active players and has no action accepted, also after that player
\* has disconnected and connected again.
C19_EliminatedStaysOut ==
    \A u \in eliminated_players[P1] :
        /\ u \notin active_players(P1)
        /\ \A a \in ActionInputs : ~submit_action_accepts(P1, u, a)

\* C15: after any sequence of Register, CreateUser, UpdateUser,
\* ChangeUsername and DeleteUser calls no two stored users share a username,
\* and Register or CreateUser with a username that already exists fails with
\* Conflict and leaves the user table unchanged.
C15_UniqueUsernames ==
    [][/\ \A i, j \in DOMAIN users' :
             i # j => users'[i].username # users'[j].username
       /\ \A u \in UsernamesOf(users) :
             (/\ last'.op \in {"register", "create_user"}
              /\ (Register(u) \/ \E c \in Users : authenticated(c) /\ CreateUser(c, u)))
             => (last'.result = "Conflict" /\ UNCHANGED users)]_vars

\* C15 witness: with two users stored, renaming one to the name of the other
\* has just been refused by the table
C15_Witness ==
    /\ last.op \in {"update_user", "change_username"}
    /\ last.result = "IntegrityError"
    /\ Cardinality(DOMAIN users) >= 2

\* the ids of the rows of room r, oldest first
RoomRows(r) == SelectSeq([i \in 1..Len(messages) |-> i],
                         LAMBDA i : messages[i].room_id = r)

\* the last n entries of s
LastN(s, n) == SubSeq(s, Len(s) - Min(n, Len(s)) + 1, Len(s))

\* C14: the history replay on WebSocket connect sends at most 50 persisted
\* chat rows of the room, namely the 50 most recent ones, oldest first,
\* however many rows the room has.
C14_HistoryReplay ==
    last.op \in {"send_message_history", "websocket_endpoint"}
        => /\ Len(last.payload) <= 50
           /\ last.payload = LastN(RoomRows(last.arg), 50)

\* C13: in every reachable state of a room a PlayerInfo entry exists for a
\* username if and only if that username holds an open socket in the room's
\* connection table.
C13_InfoIffOpenSocket ==
    \A u \in Users :
        u \in DOMAIN player_info[P1]
            <=> (owner[u] # None /\ socket[owner[u]] = "open")

\* C18: a connection whose AddPlayer is rejected (room full, username
\* already present, previously kicked) leaves the room as it was once the
\* gateway has cleaned that connection up: connection table, player info,
\* round state and live-player counter are unchanged, and the connected
\* player holding the same username stays in the room.
C18_RejectedJoinLeavesRoom ==
    [][\A c \in Conns :
        (/\ last'.op = "add_player"
         /\ last'.result \in {"RoomFull", "AlreadyPresent", "PreviouslyKicked"}
         /\ Connect(c))
        => /\ UNCHANGED <<connections, owner, player_info, round_number, actions,
                          ready_players, number_of_players>>
           /\ UserOf(c) \in connections[P1] => UserOf(c) \in connections'[P1]]_vars

\* no receiver task is in the middle of a play or kick message
Quiescent == \A c \in Conns : handler[c] \in {"none", "loop"}

\* C20: a round never stalls with everybody ready: when no gateway operation
\* on the room is under way, it is not the case that the game is not over,
\* the ready set is non-empty and AllPlayersReady() holds with the round
\* unresolved.
C20_NoStalledRound ==
    Quiescent => ~(/\ ~game_over[P1]
                   /\ ready_players[P1] # {}
                   /\ all_players_ready(P1))

\* C23: the room state machine accepts actions only in the active state: in
\* the idle state (no game started, none over) no SubmitAction is accepted
\* and no round is resolved.
C23_IdleAcceptsNothing ==
    [][(~game_active[P1] /\ ~game_over[P1]) =>
        /\ \A u \in Users, a \in ActionInputs :
              (last'.op = "submit_action" /\ SubmitAction(P1, u, a))
                 => last'.result = "false"
        /\ ~(/\ last'.op = "process_round"
             /\ last'.result = "ok"
             /\ \E elim \in SUBSET (0..(Cardinality(Users) - 1)) :
                    ProcessRound(P1, elim))]_vars

\* C24: StartGame returns false and changes no state when fewer than 2
\* connections are present or a game is already active; otherwise it resets
\* the game (round 1, empty action map and ready set, no eliminated player,
\* no winner, not over), sets the game active and returns true.
C24_StartGame ==
    [][(last'.op = "start_game" /\ StartGame(P1)) =>
        IF Cardinality(connections[P1]) < 2 \/ game_active[P1]
        THEN /\ last'.result = "false"
             /\ UNCHANGED gameStateVars
        ELSE /\ last'.result = "true"
             /\ round_number'[P1] = 1
             /\ actions'[P1] = <<>>
             /\ ready_players'[P1] = {}
             /\ eliminated_players'[P1] = {}
             /\ \A u \in DOMAIN player_info'[P1] : ~player_info'[P1][u].is_eliminated
             /\ winner'[P1] = None
             /\ ~game_over'[P1]
             /\ game_active'[P1]
             /\ UNCHANGED <<connections, kicked_players, number_of_players>>]_vars

\* C24 witness: a game has just been started in a room whose players had
\* already submitted actions, so the start wiped a round that was under way
\* or a game that had ended
C24_Witness ==
    /\ last.op = "start_game"
    /\ last.result = "true"
    /\ game_active[P1]
    /\ \E u \in connections[P1] : player_info[P1][u].actions_submitted = MaxSubmitted

\* C25: RemovePlayer(username) is a no-op when the username is not
\* connected; otherwise it decrements the persisted counter by one, removes
\* that username's connection and PlayerInfo and purges its pending action
\* and ready entry, leaving every other player's entry, action and ready
\* state unchanged.
C25_RemovePlayer ==
    [][\A u \in Users :
        (last'.op = "remove_player" /\ RemovePlayer(P1, u)) =>
            IF u \notin connections[P1]
            THEN /\ last'.result = "noop"
                 /\ UNCHANGED gameStateVars
            ELSE /\ number_of_players' = number_of_players - 1
                 /\ connections'[P1] = connections[P1] \ {u}
                 /\ DOMAIN player_info'[P1] = DOMAIN player_info[P1] \ {u}
                 /\ ActionOf(actions'[P1], u) = None
                 /\ u \notin ready_players'[P1]
                 /\ \A v \in Users \ {u} :
                       /\ v \in DOMAIN player_info[P1]
                             => player_info'[P1][v] = player_info[P1][v]
                       /\ ActionOf(actions'[P1], v) = ActionOf(actions[P1], v)
                       /\ v \in ready_players'[P1] <=> v \in ready_players[P1]
                 /\ UNCHANGED <<round_number, kicked_players, gameVars>>]_vars

\* C25 witness: a player has just been removed while another player's
\* action is pending in a round that is not the first
C25_Witness ==
    /\ last.op = "remove_player"
    /\ last.result = "ok"
    /\ round_number[P1] > 1
    /\ actions[P1] # <<>>
    /\ ready_players[P1] # {}

\* C21: each round is resolved exactly once, whatever the interleaving of
\* the handle_player_action calls of a room at their publishes: process_round
\* is never entered with its all-players-ready precondition false, and never
\* on a round that was already resolved (the final round of a game that is
\* over), so one round_complete is published per round.
C21_RoundResolvedOnce ==
    [][\A c \in Conns :
        (last'.op = "process_round" /\ Resolve(c))
        => /\ last'.result # "PreconditionFailed"
           /\ ~game_over[P1]]_vars

\* the channel holds a player_ready event of username u that no
\* round_complete event of a continuing game follows
ReadyPublished(u) ==
    \E i \in 1..Len(channel) :
        /\ channel[i].type = "player_ready"
        /\ channel[i].username = u
        /\ \A j \in (i + 1)..Len(channel) :
              channel[j].type = "round_complete" => channel[j].game_over

\* C22: handle_player_action publishes nothing and changes nothing when
\* submit_action rejects the action; when it accepts, a player_ready event
\* with the ready count and the active count is published and, if all
\* players are ready when the call goes on, the round is resolved and
\* round_complete is published (unless the engine raises), after the
\* player_ready events of the actions of that round.
C22_ReadyBeforeRoundComplete ==
    [][\A c \in BusConns :
        /\ \A a \in BusActionInputs :
              (/\ last'.op = "submit_action"
               /\ last'.arg = a
               /\ handle_player_action(c, a))
              => IF ~submit_action_accepts(P1, UserOf(c), a)
                 THEN /\ last'.result = "false"
                      /\ UNCHANGED <<gameStateVars, gatewayVars, busVars>>
                 ELSE /\ Len(channel') = Len(channel) + 1
                      /\ channel'[Len(channel')].type = "player_ready"
                      /\ channel'[Len(channel')].username = UserOf(c)
                      /\ channel'[Len(channel')].ready_count
                            = Cardinality(ready_players'[P1])
                      /\ channel'[Len(channel')].total_active
                            = Cardinality(ActiveOf(player_info'[P1]))
        /\ (handler[c] = "announce" /\ handle_player_action_resumes(c))
              => IF all_players_ready(P1)
                 THEN /\ last'.op = "process_round"
                      /\ last'.result = "ok" =>
                            /\ Len(channel') = Len(channel) + 1
                            /\ channel'[Len(channel')].type = "round_complete"
                            /\ \A u \in Names(actions[P1]) : ReadyPublished(u)
                 ELSE UNCHANGED <<gameStateVars, channel>>]_vars

\* C22 witness: the round of two players has just been resolved: the channel
\* holds their two player_ready events and then round_complete
C22_Witness ==
    /\ last.op = "process_round"
    /\ last.result = "ok"
    /\ \E i, j, k \in 1..Len(channel) :
          /\ i < j /\ j < k /\ k = Len(channel)
          /\ channel[i].type = "player_ready"
          /\ channel[j].type = "player_ready"
          /\ channel[i].username # channel[j].username
          /\ channel[j].ready_count = 2
          /\ channel[j].total_active = 2
          /\ channel[k].type = "round_complete"

\* C26: a kick_player message whose acting username is not a player of the
\* room is answered "Unauthorized", and one whose target is not connected
\* "Player not found", the acting username being looked at first; in both
\* cases no socket is closed, the kicked set and the roster stay as they are
\* and nothing is published
C26_KickRejected ==
    [][\A c \in BusConns, h \in BusHosts, t \in BusKickTargets :
          (last'.op = "kick_player" /\ handle_kick_player(c, h, t)) =>
             /\ h \notin DOMAIN player_info[P1] =>
                   /\ last'.result = "Unauthorized"
                   /\ UNCHANGED <<gameStateVars, gatewayVars, busVars>>
             /\ (h \in DOMAIN player_info[P1] /\ t \notin connections[P1]) =>
                   /\ last'.result = "Player not found"
                   /\ UNCHANGED <<gameStateVars, gatewayVars, busVars>>]_vars

\* a kick of somebody who is not connected was refused while two players
\* were in the room
C26_Witness ==
    /\ last.op = "kick_player"
    /\ last.result = "Player not found"
    /\ Cardinality(connections[P1]) = 2


\* C27: the kick_player event published after a kick names the target in
\* its kicked_players and no longer in its players, whether the target's
\* receiver task has run its finally block by then or not
C27_KickEventRoster ==
    [][\A c \in BusConns :
          (last'.op = "kick_player" /\ last'.result = "ok"
              /\ handle_kick_player_resumes(c)) =>
             LET e == channel'[Len(channel')]
             IN  /\ e.type = "kick_player"
                 /\ e.username = kick_target[c]
                 /\ kick_target[c] \in e.kicked_players
                 /\ kick_target[c] \notin e.players]_vars

\* a connection whose player is in the room and whose socket is connected
Attached(c) ==
    /\ handler[c] # "none"
    /\ socket[c] = "open"
    /\ owner[UserOf(c)] = c

\* C28: every event published on the room's channel once a player has been
\* added, the player's own player_joined included, reaches the subscription
\* of that player's connection in the order of the channel, and the sender
\* task forwards the subscription's events to the socket in that order
C28_SameEventStream ==
    [][/\ Len(channel') = Len(channel) + 1 =>
             \A c \in BusConns :
                Attached(c)' =>
                   /\ Len(subscriber'[c]) = Len(subscriber[c]) + 1
                   /\ subscriber'[c][Len(subscriber'[c])] = channel'[Len(channel')]
       /\ \A c \in BusConns :
             (last'.op = "broadcast_to_client" /\ last'.result = "sent"
                 /\ broadcast_to_client(c)) =>
                /\ last'.payload = Head(subscriber[c])
                /\ subscriber'[c] = Tail(subscriber[c])]_vars

\* C29: whenever the receiver task of a connection whose player was added
\* ends, by the client's close, a kick, an error or its cancellation, the
\* player is out of the connection table and of the player info, and a
\* player_left event of that username, built after the removal, is published
C29_LeftAfterRemoval ==
    [][\A c \in BusConns :
          (handler[c] # "none" /\ handler'[c] = "none") =>
             /\ UserOf(c) \notin connections'[P1]
             /\ UserOf(c) \notin DOMAIN player_info'[P1]
             /\ Len(channel') = Len(channel) + 1
             /\ channel'[Len(channel')] =
                   player_left(UserOf(c), player_info'[P1])]_vars

\* C30: the two tasks of a connection end together: a step that ends the
\* receiver task, its failed start included, ends the sender task, a step
\* that ends the sender task ends the receiver task, and no receiver task is
\* left running without its sender task
C30_TasksEndTogether ==
    [][\A c \in BusConns :
          /\ (handler[c] # "none" /\ handler'[c] = "none") => sender'[c] = "none"
          /\ (last'.op = "add_player" /\ last'.result # "ok"
                 /\ handle_messages(c)) => sender'[c] = "none"
          /\ (sender[c] # "none" /\ sender'[c] = "none") => handler'[c] = "none"
          /\ sender'[c] = "none" => handler'[c] = "none"]_vars

\* the sender task of a connection raised on a socket the server had closed
\* while the receiver task was still running, and both tasks are gone
C30_Witness ==
    /\ last.op = "broadcast_to_client"
    /\ last.result = "RuntimeError"
    /\ \E c \in BusConns :
          /\ sender[c] = "none"
          /\ handler[c] = "none"
          /\ UserOf(c) \in kicked_players[P1]

\* C37: in every reachable state of a room's state machine game_active and
\* game_over are never both true, and there is a winner only when the game
\* is over
C37_ActiveOverWinner ==
    \A p \in Procs :
       /\ ~(game_active[p] /\ game_over[p])
       /\ winner[p] # None => game_over[p]

\* process_round ended the game with a winner
C37_Witness ==
    /\ last.op = "process_round"
    /\ last.result = "ok"
    /\ game_over[P1]
    /\ ~game_active[P1]
    /\ winner[P1] # None

\* C38: whenever no call is under way, the persisted counter of the room is
\* the number of entries of the room's connection tables, summed over the
\* processes that hold sockets of the room, and is not negative
C38_CounterMatchesTables ==
    (\A p \in Procs : room_db[p] = NoRow) =>
        /\ number_of_players = Entries
        /\ number_of_players >= 0

\* C31: a WebSocket connection whose token is absent, does not pass
\* jwt.decode (malformed, bad signature, expired), has no subject or names
\* no known user is closed with the policy-violation code and never
\* accepted: its tasks are not started, so no player is added, no counter
\* changes and nothing is published for it
C31_BadTokenNeverAccepted ==
    [][last'.op = "authenticate_websocket" =>
          \A c \in AuthConns :
             LET t == last'.payload
             IN  (/\ authenticate_websocket(c, t)
                  /\ \/ t.form # "jwt"
                     \/ t.sig # "valid"
                     \/ t.exp # "valid"
                     \/ t.sub = None
                     \/ t.sub \notin UsernamesOf(users)) =>
                    /\ last'.result = "WS_1008_POLICY_VIOLATION"
                    /\ sender'[c] = "none"
                    /\ UNCHANGED <<gameStateVars, gatewayVars, busVars, storeVars>>]_vars

\* a connection was refused that presented an issued token before its
\* expiry, whose subject no row has any more, while there are accounts
C31_Witness ==
    /\ last.op = "authenticate_websocket"
    /\ last.result = "WS_1008_POLICY_VIOLATION"
    /\ last.payload.id # 0
    /\ last.payload.exp = "valid"
    /\ DOMAIN users # {}

\* C39: a token issued to an account never resolves to another account,
\* over HTTP or on the connect of a WebSocket, whatever Register,
\* CreateUser, UpdateUser, ChangeUsername and DeleteUser calls were made
C39_TokenKeepsItsAccount ==
    [][(/\ last'.op \in {"get_current_user", "authenticate_websocket"}
        /\ last'.result = "ok"
        /\ last'.payload.id # 0) =>
          last'.arg = last'.payload.id]_vars

C35_RoundFailureContained ==
    [][\A c \in DupConns :
          (last'.op = "process_round" /\ last'.result # "ok"
              /\ handle_player_action_resumes(c)) =>
             /\ channel' = Append(channel, round_failed)
             /\ handler'[c] = "loop"
             /\ socket'[c] = socket[c]
             /\ UNCHANGED <<gameStateVars, owner, sender>>]_vars

\* the engine raised on a round and the error event is the last on the
\* channel
C35_Witness ==
    /\ last.op = "process_round"
    /\ last.result # "ok"
    /\ channel # <<>>
    /\ channel[Len(channel)] = round_failed
    /\ \E c \in DupConns : handler[c] = "loop" /\ socket[c] = "open"

\* C32: a frame that is malformed JSON or a play frame whose action is not
\* a number is answered with the error frame "Invalid message format": the
\* receiver goes on with the next frame, the socket and the player stay as
\* they were and the room state is unchanged
InvalidFrames ==
    {f \in FrameInputs : f.json = "malformed"
                            \/ (f.json = "object" /\ frame_raises(f) # "none")}

C32_InvalidFrameAnswered ==
    [][\A c \in BusConns :
          (last'.op = "iter_text" /\ last'.payload \in InvalidFrames
              /\ iter_text(c, last'.payload)) =>
             /\ last'.result = "Invalid message format"
             /\ handler'[c] = "loop"
             /\ socket'[c] = socket[c]
             /\ UNCHANGED gameStateVars]_vars

\* the message events on the room's channel
ChatEvents(ch) == Cardinality({i \in 1..Len(ch) : ch[i].type = "message"})

\* the receivers between the commit of a chat row and its publish
Chatting == Cardinality({c \in Conns : handler[c] = "chatting"})

\* C34: a chat frame is persisted as one Message row before its message
\* event is published, so the rows are the published chat events and the
\* chat frames at their publish; no other frame, join or leave writes a row
C34_ChatPersistedBeforeBroadcast ==
    /\ [](Len(messages) = ChatEvents(channel) + Chatting)
    /\ [][/\ messages' # messages =>
                /\ last'.op = "message"
                /\ Len(messages') = Len(messages) + 1
                /\ SubSeq(messages', 1, Len(messages)) = messages
                /\ messages'[Len(messages')].room_id = 1
          /\ ChatEvents(channel') > ChatEvents(channel) =>
                /\ messages' = messages
                /\ ChatEvents(channel') <= Len(messages)]_vars

\* two chat frames were persisted and published among game frames
C34_Witness ==
    /\ ChatEvents(channel) = 2
    /\ Len(messages) = 2
    /\ last.op = "broadcast_to_room"
    /\ round_number[P1] > 1

\* C36: the registry of a process holds at most one state machine per room
\* id; a call for an id whose instance exists returns that instance with
\* its state, a first call for a stored id constructs one, and a call for
\* an id absent from storage fails and adds no entry
C36_OneInstancePerRoom ==
    /\ [](\A k1 \in DOMAIN rooms, k2 \in DOMAIN rooms :
             rooms[k1].room_id = rooms[k2].room_id => k1 = k2)
    /\ [][last'.op = "get_or_create_room" =>
             /\ \A k \in DOMAIN rooms : k \in DOMAIN rooms' /\ rooms'[k] = rooms[k]
             /\ last'.result = "ValueError" => rooms' = rooms
             /\ last'.result = "ok" => last'.payload.key \in DOMAIN rooms']_vars

\* C40: in the in-memory lobby a player's current_room is r exactly when
\* the player's id is in the seat map of room r, so a player has at most one
\* seat; a join_room that fails leaves every seat map and current_room as
\* it was
C40_SeatMatchesCurrentRoom ==
    /\ [](\A rid \in DOMAIN lobby_rooms :
            /\ lobby_rooms[rid].players \subseteq DOMAIN lobby_players
            /\ \A pid \in DOMAIN lobby_players :
                  lobby_players[pid].current_room = rid
                      <=> pid \in lobby_rooms[rid].players)
    /\ [](\A pid \in DOMAIN lobby_players :
             lobby_players[pid].current_room \in DOMAIN lobby_rooms \cup {None})
    /\ [][(last'.op = "join_room" /\ last'.result = "false") =>
             UNCHANGED <<lobby_rooms, lobby_players>>]_vars

\* a player moved from a room of the lobby, where another player stays, to
\* another room
C40_Witness ==
    /\ last.op = "join_room"
    /\ last.result = "true"
    /\ last.payload.from # None
    /\ last.payload.from # last.payload.room
    /\ lobby_rooms[last.payload.from].players # {}

====
